---- MODULE Spec2Model ----
(***************************************************************************)
(* A model of the kvarn web server core: the bounded caches (Cache,        *)
(* CacheType, VaryMaster), the extension registry (Extensions, Id,         *)
(* add_sort_list!) with the resolve_* drivers, and the file reading path   *)
(* of request processing (read_file, read_file_cached) run by concurrent   *)
(* workers.                                                                *)
(*                                                                         *)
(* Option<T> is modelled as a sequence: <<>> is None, <<x>> is Some(x).    *)
(* Sizes are counted in abstract units (the source counts bytes).          *)
(***************************************************************************)
EXTENDS Integers, Sequences, FiniteSets, TLC

VARIABLES
    map,            \* Cache::map of the response cache: key -> CacheType
    ret,            \* what the last cache operation returned
    prime,          \* Extensions::prime: Vec<(Id, Prime)>
    prepare_single, \* Extensions::prepare_single: path -> Prepare
    prepare_fn,     \* Extensions::prepare_fn: Vec<(Id, If, Prepare)>
    package,        \* Extensions::package: Vec<(Id, Package)>
    post,           \* Extensions::post: Vec<(Id, Post)>
    nreg,           \* extensions registered so far, per collection
    panicked,       \* a registration panicked
    run,            \* what the last resolve_* call did
    fs_map,         \* Cache::map of the file cache: path -> bytes
    fs_lock,        \* the worker holding the file cache's Mutex, or 0
    pc,             \* where each worker is in its request
    req,            \* the path each worker was asked for
    buffer,         \* the bytes each worker read from the file
    body,           \* the body each worker got for its response
    reads,          \* how often each file was opened and read
    reader,         \* the file reading function of the build
    rules,          \* Cors::rules: Vec<(String, CorsAllowList)>
    hosts,          \* HostData: the default host and the hosts by name
    out,            \* the last request or call and what it was answered
    response_lock,  \* the worker holding the response cache's Mutex, or 0
    con_id,         \* Config::con_id
    sockets,        \* how many sockets the listener has accepted
    last_send,      \* ThreadPool::last_send
    jobs,           \* the jobs waiting in each worker's channel
    connections,    \* each worker's HashMap<Token, Connection>
    global_connections, \* HandlerPool::connections: token -> worker id
    poll_registry,  \* mio's registry: registered socket -> token
    pending,        \* the variant each worker has yet to put in the cache
    front,          \* the stream of the client, as ByteProxy sees it
    back,           \* the stream of the upstream server
    front_buf,      \* ByteProxy::front_buf: CopyBuffer from back to front
    back_buf,       \* ByteProxy::back_buf: CopyBuffer from front to back
    open_back       \* whether the loop on ByteProxy::channel still runs

cacheVars == <<map, ret>>
extVars == <<prime, prepare_single, prepare_fn, package, post, nreg,
             panicked, run>>

fsVars == <<fs_map, fs_lock, pc, req, buffer, body, reads, reader>>

reqVars == <<rules, hosts, out>>

poolVars == <<con_id, sockets, last_send, jobs, connections,
              global_connections, poll_registry>>

\* the state of the threads of the pool besides the caches
threadVars == <<response_lock, pending, poolVars>>

pipeVars == <<front, back, front_buf, back_buf, open_back>>

vars == <<map, ret, prime, prepare_single, prepare_fn, package, post, nreg,
          panicked, run, fs_map, fs_lock, pc, req, buffer, body, reads,
          reader, rules, hosts, out, response_lock, con_id, sockets,
          last_send, jobs, connections, global_connections, poll_registry,
          pending, front, back, front_buf, back_buf, open_back>>

(***************************************************************************)
(* Bounds of the model.                                                    *)
(***************************************************************************)
\* number of distinct cache keys the operations draw from
NumKeys == 3
\* cap on the number of variants pushed to one Vary entry
MaxVariants == 2
\* cap on the number of tokens of one request header
MaxTokens == 2
\* width of the interval of priorities extensions are registered with
PrioritySpan == 2
\* cap on the number of registered extensions
MaxRegs == 3
\* worker threads, each serving one request
NumWorkers == 2
\* files on disk
NumFiles == 2
MaxRules == 3
MaxCorsRules == 2
MaxDirective == 3
MaxHosts == 2
\* cap on the number of responses process_request has cached
MaxCached == 1
\* cap on the number of sockets the listener accepts
MaxSockets == 3
\* cap on the number of sockets waiting at the listener at one event
MaxBatch == 2
\* cap on the number of jobs waiting in one worker's channel
MaxQueue == 2
\* length of the buffer of a CopyBuffer (2048 in CopyBuffer::new)
BufLen == 2
\* cap on the number of bytes a peer sends into a stream
MaxStream == 3
\* cap on the number of bytes a stream holds for its peer to take
MaxUnread == 2

(***************************************************************************)
(* Cache configuration: the fields of struct Cache, as set by              *)
(* Cache::with_max_and_size (in units).                                    *)
(***************************************************************************)
max_items == 2
size_limit == 2

Keys == 1..NumKeys
\* a ByteResponse is known to the cache by its length only
ByteResponses == {[len |-> n] : n \in 1..(size_limit + 1)}

EmptyMap == [k \in {} |-> <<>>]

(***************************************************************************)
(* CacheType and its constructors.                                         *)
(***************************************************************************)
with_data(response) == [type |-> "Data", data |-> response]

vary_with_data(structure, data, headers) ==
    [type |-> "Vary", vary_headers |-> structure,
     data |-> << [headers |-> headers, response |-> data] >>]

RECURSIVE SumSizes(_)
SumSizes(data) ==
    IF data = <<>> THEN 0
    ELSE data[1].response.len + SumSizes(Tail(data))

\* trait Size: Vec<T> counts its elements, ByteResponse its length,
\* CacheType::Vary folds the sizes of its variants
Size(v) ==
    CASE v.type = "Vec"  -> v.len
      [] v.type = "Data" -> v.data.len
      [] v.type = "Vary" -> SumSizes(v.data)

(***************************************************************************)
(* Cache::cache.  The evicted entry is the first of the HashMap's          *)
(* iteration, which may be any key of the map.                             *)
(***************************************************************************)
ExceedsLimitLax(v) == Size(v) > size_limit + 1
ExceedsLimit(v) == Size(v) > size_limit

Full(m) == Cardinality(DOMAIN m) >= max_items

MapRemove(m, k) == [x \in (DOMAIN m) \ {k} |-> m[x]]
MapInsert(m, k, v) == [x \in (DOMAIN m) \cup {k} |-> IF x = k THEN v ELSE m[x]]

\* the keys Cache::cache may evict before inserting into m; {0} when none is
Victims(m) == IF Full(m) /\ DOMAIN m # {} THEN DOMAIN m ELSE {0}

\* the map after Cache::cache(key, value) evicting `victim`
CacheInsert(m, key, value, victim) ==
    IF ExceedsLimit(value) THEN m
    ELSE MapInsert(MapRemove(m, victim), key, value)

\* Result<(), Arc<V>> of Cache::cache
CacheResult(value) == IF ExceedsLimit(value) THEN <<value>> ELSE <<>>

cache(key, value) ==
    \E victim \in Victims(map) :
        /\ map' = CacheInsert(map, key, value, victim)
        /\ ret' = [op |-> "cache", ok |-> CacheResult(value) = <<>>,
                   val |-> CacheResult(value)]

(***************************************************************************)
(* CacheType::add_variant and Cache::add_variant.                          *)
(***************************************************************************)
SameStructureLax(e, structure) == e.type = "Vary"
SameStructure(e, structure) == e.type = "Vary" /\ structure = e.vary_headers

\* Ok: the entry with the variant pushed; Err: <<>>
CacheType_add_variant(e, response, headers, structure) ==
    IF SameStructure(e, structure)
    THEN << [e EXCEPT !.data =
                Append(@, [headers |-> headers, response |-> response])] >>
    ELSE <<>>

\* Cache::add_variant; ret keeps the arguments of the call next to its result
Cache_add_variant(key, response, headers, structure) ==
    IF key \in DOMAIN map
    THEN IF response.len > size_limit
         THEN /\ map' = map
              /\ ret' = [op |-> "add_variant", ok |-> FALSE, val |-> <<>>,
                         args |-> <<key, response, headers, structure>>]
         ELSE LET pushed == CacheType_add_variant(map[key], response,
                                                  headers, structure)
              IN  /\ map' = IF pushed = <<>> THEN map
                            ELSE [map EXCEPT ![key] = pushed[1]]
                  /\ ret' = [op |-> "add_variant", ok |-> pushed # <<>>,
                             val |-> <<>>,
                             args |-> <<key, response, headers, structure>>]
    ELSE LET value == vary_with_data(structure, response, headers)
         IN  \E victim \in Victims(map) :
                /\ map' = CacheInsert(map, key, value, victim)
                /\ ret' = [op |-> "add_variant",
                           ok |-> CacheResult(value) = <<>>, val |-> <<>>,
                           args |-> <<key, response, headers, structure>>]

(***************************************************************************)
(* Cache::remove and Cache::clear.                                         *)
(***************************************************************************)
remove(key) ==
    /\ map' = MapRemove(map, key)
    /\ ret' = [op |-> "remove", ok |-> key \in DOMAIN map,
               val |-> IF key \in DOMAIN map THEN <<map[key]>> ELSE <<>>]

clear ==
    /\ map' = EmptyMap
    /\ ret' = [op |-> "clear", ok |-> TRUE, val |-> <<>>]

(***************************************************************************)
(* Header names and values.  A request header is absent (<<>>) or present  *)
(* (<<raw>>), raw being its comma separated items, each <<value, q>> with  *)
(* q in tenths.                                                            *)
(***************************************************************************)
ToAsciiLowercase(name) ==
    CASE name = "Accept-Encoding" -> "accept-encoding"
      [] name = "Accept-Language" -> "accept-language"
      [] OTHER -> name

HeaderNames == {"accept-encoding", "accept-language"}

\* the values a stored variant may carry on an axis
StoredValues(name) ==
    IF ToAsciiLowercase(name) = "accept-encoding"
    THEN {"gzip", "identity"} ELSE {"en", "sv"}

\* the items a request header of that name may list
RawItems(name) ==
    IF name = "accept-encoding"
    THEN {<<"gzip", 10>>, <<"identity", 0>>, <<"*", 5>>}
    ELSE {<<"en", 10>>, <<"sv", 8>>, <<"*", 1>>}

SeqsUpTo(S, n) == UNION {[1..k -> S] : k \in 0..n}

RawHeaders(name) == SeqsUpTo(RawItems(name), MaxTokens)

\* http::HeaderMap restricted to the headers resolve looks at
HeaderMapOf(ae, al) ==
    [name \in HeaderNames |-> IF name = "accept-encoding" THEN ae ELSE al]

Optional(S) == {<<>>} \cup {<<x>> : x \in S}

\* HeaderMap::get looks names up case-insensitively
HeaderGet(headers, name) == headers[ToAsciiLowercase(name)]

\* parse::format_list_header: the items as ValueQualitySet, in header order
format_list_header(raw) ==
    [i \in 1..Len(raw) |-> [value |-> raw[i][1], quality |-> raw[i][2]]]

StartsWithStar(value) == value = "*"

(***************************************************************************)
(* CacheType::resolve.  `results` holds positions into vary.data.          *)
(***************************************************************************)
\* required_data of the first axis
FirstRequired(headers, name) ==
    LET data == IF HeaderGet(headers, name) = <<>> THEN <<>>
                ELSE format_list_header(HeaderGet(headers, name)[1])
    IN  IF /\ ToAsciiLowercase(name) = "accept-encoding"
           /\ ~ \E i \in 1..Len(data) : data[i].value = "identity"
        THEN Append(data, [value |-> "identity", quality |-> 5])
        ELSE data

\* required_data of the axes after the first: the header is looked up and
\* dropped, the list is always empty
LaterRequired(headers, name) == <<>>

\* whether a stored variant passes the requirements of one axis (and, for
\* comparison, the test without the "nothing required" case)
MatchesListed(variant, position, required) ==
    \E i \in 1..Len(required) :
        \/ variant.headers[position] = required[i].value
        \/ StartsWithStar(required[i].value)
Matches(variant, position, required) ==
    \/ required = <<>>
    \/ \E i \in 1..Len(required) :
            \/ variant.headers[position] = required[i].value
            \/ StartsWithStar(required[i].value)

\* the positions (ascending) the loop over all_data pushes to results
FirstAxisResults(vary, headers) ==
    {i \in 1..Len(vary.data) :
        Matches(vary.data[i], 1, FirstRequired(headers, vary.vary_headers[1]))}

\* results.retain for the axis at `position`
Retain(vary, headers, position, results) ==
    {i \in results :
        Matches(vary.data[i], position,
                LaterRequired(headers, vary.vary_headers[position]))}

RECURSIVE RetainFrom(_, _, _, _)
RetainFrom(vary, headers, position, results) ==
    IF position > Len(vary.vary_headers) THEN results
    ELSE RetainFrom(vary, headers, position + 1,
                    Retain(vary, headers, position, results))

Min(S) == CHOOSE x \in S : \A y \in S : x <= y

\* results.get(0): the position of the chosen variant, 0 for None
ResolveFirst(results) == IF results = {} THEN 0 ELSE Min(results)

VaryResolveIdx(vary, headers) ==
    ResolveFirst(RetainFrom(vary, headers, 2, FirstAxisResults(vary, headers)))

CacheType_resolve(e, headers) ==
    IF e.type = "Data" THEN <<e.data>>
    ELSE LET idx == VaryResolveIdx(e, headers)
         IN  IF idx = 0 THEN <<>> ELSE <<e.data[idx].response>>

\* Cache::resolve
Cache_resolve(m, key, headers) ==
    IF key \in DOMAIN m THEN CacheType_resolve(m[key], headers) ELSE <<>>

resolve(key, headers) ==
    LET found == Cache_resolve(map, key, headers)
    IN  /\ map' = map
        /\ ret' = [op |-> "resolve", ok |-> found # <<>>, val |-> found,
                   key |-> key, headers |-> headers,
                   \* which variant `found` is: its position in vary.data
                   idx |-> IF key \in DOMAIN map /\ map[key].type = "Vary"
                           THEN VaryResolveIdx(map[key], headers) ELSE 0]

(***************************************************************************)
(* Initial state.                                                          *)
(***************************************************************************)
NoRet == [op |-> "none", ok |-> TRUE, val |-> <<>>]

Collections == {"prime", "prepare_single", "prepare_fn", "package", "post"}

NoRun == [phase |-> "none", calls |-> <<>>]

NoHosts == [default |-> <<>>, by_name |-> <<>>]

NoOut == [op |-> "none"]

\* const RESERVED_TOKENS: the tokens kept for the listeners
RESERVED_TOKENS == 1024

\* CopyBuffer::with_capacity and CopyBuffer::new
CopyBuffer_with_capacity(initialized) ==
    [read_done |-> FALSE, pos |-> 0, cap |-> 0,
     buf |-> [i \in 1..initialized |-> 0]]

CopyBuffer_new == CopyBuffer_with_capacity(BufLen)

\* a stream no byte has passed yet: the bytes that arrived and wait to be
\* read, the bytes written to it that its peer has not taken, how many
\* bytes its peer has sent, and whether its peer has sent its last byte
NewStream == [input |-> <<>>, output |-> <<>>, sent |-> 0, eof |-> FALSE]

\* Cache::new and Extensions::empty
Init ==
    /\ map = EmptyMap
    /\ ret = NoRet
    /\ prime = <<>>
    /\ prepare_single = EmptyMap
    /\ prepare_fn = <<>>
    /\ package = <<>>
    /\ post = <<>>
    /\ nreg = [c \in Collections |-> 0]
    /\ panicked = FALSE
    /\ run = NoRun
    /\ fs_map = EmptyMap
    /\ fs_lock = 0
    /\ pc = [w \in 1..NumWorkers |-> "idle"]
    /\ req = [w \in 1..NumWorkers |-> 0]
    /\ buffer = [w \in 1..NumWorkers |-> <<>>]
    /\ body = [w \in 1..NumWorkers |-> <<>>]
    /\ reads = [path \in 1..NumFiles |-> 0]
    /\ reader = "none"
    /\ rules = <<>>
    /\ hosts = NoHosts
    /\ out = NoOut
    /\ response_lock = 0
    /\ con_id = RESERVED_TOKENS
    /\ sockets = 0
    /\ last_send = 0
    /\ jobs = [w \in 0..(NumWorkers - 1) |-> <<>>]
    /\ connections = [w \in 0..(NumWorkers - 1) |-> EmptyMap]
    /\ global_connections = EmptyMap
    /\ poll_registry = EmptyMap
    /\ pending = [w \in 1..NumWorkers |-> <<>>]
    /\ front = NewStream
    /\ back = NewStream
    /\ front_buf = CopyBuffer_new
    /\ back_buf = CopyBuffer_new
    /\ open_back = "channel"

\* the caller is done with what the last operation returned (`let _ = ...`)
\* and may call the cache again
Idle == ret.op = "none"

Drop ==
    /\ ~ Idle
    /\ ret' = NoRet
    /\ UNCHANGED <<map, extVars, fsVars, threadVars, pipeVars, reqVars>>

(***************************************************************************)
(* The cache under arbitrary sequences of its mutating operations.         *)
(***************************************************************************)
Structures ==
    {<<"Accept-Encoding">>, <<"Accept-Encoding", "Accept-Language">>,
     <<"Accept-Language", "Accept-Encoding">>}

\* the header values a caller passes along with a response: one per axis
VariantHeaders(structure) ==
    {h \in [1..Len(structure) -> StoredValues("Accept-Encoding")
                                    \cup StoredValues("Accept-Language")] :
        \A i \in 1..Len(structure) : h[i] \in StoredValues(structure[i])}

VariantsBelowCap(key) ==
    key \in DOMAIN map /\ map[key].type = "Vary"
        => Len(map[key].data) < MaxVariants

CacheStructures == {<<"Accept-Encoding">>, <<"Accept-Encoding", "Accept-Language">>}
CacheHeaders(structure) ==
    {h \in VariantHeaders(structure) : \A i \in 1..Len(h) : h[i] \in {"gzip", "en"}}

CacheData == /\ Idle
             /\ UNCHANGED <<extVars, fsVars, threadVars, pipeVars, reqVars>>
             /\ \E key \in Keys, response \in ByteResponses :
                    cache(key, with_data(response))

AddVariant == /\ Idle
              /\ UNCHANGED <<extVars, fsVars, threadVars, pipeVars, reqVars>>
              /\ \E key \in Keys, response \in ByteResponses,
                    structure \in CacheStructures :
                    \E headers \in CacheHeaders(structure) :
                        /\ VariantsBelowCap(key)
                        /\ Cache_add_variant(key, response, headers, structure)

Remove == Idle /\ UNCHANGED <<extVars, fsVars, threadVars, pipeVars, reqVars>> /\ \E key \in Keys : remove(key)

Clear == Idle /\ UNCHANGED <<extVars, fsVars, threadVars, pipeVars, reqVars>> /\ clear

NextCache == CacheData \/ AddVariant \/ Remove \/ Clear \/ Drop

SpecCache == Init /\ [][NextCache]_vars

(***************************************************************************)
(* One cache key with variants over all header values, and requests        *)
(* resolved against it.                                                    *)
(***************************************************************************)
ResolveKeys == {1}
UnitResponse == [len |-> 1]

ResolveCacheData ==
    /\ Idle
    /\ UNCHANGED <<extVars, fsVars, threadVars, pipeVars, reqVars>>
    /\ \E key \in ResolveKeys : cache(key, with_data(UnitResponse))

ResolveAddVariant ==
    /\ Idle
    /\ UNCHANGED <<extVars, fsVars, threadVars, pipeVars, reqVars>>
    /\ \E key \in ResolveKeys, structure \in Structures :
        \E headers \in VariantHeaders(structure) :
            /\ VariantsBelowCap(key)
            /\ Cache_add_variant(key, UnitResponse, headers, structure)

ResolveRemove ==
    Idle /\ UNCHANGED <<extVars, fsVars, threadVars, pipeVars, reqVars>> /\ \E key \in ResolveKeys : remove(key)

Resolve == /\ Idle
           /\ UNCHANGED <<extVars, fsVars, threadVars, pipeVars, reqVars>>
           /\ \E key \in ResolveKeys,
                 ae \in Optional(RawHeaders("accept-encoding")),
                 al \in Optional(RawHeaders("accept-language")) :
                    resolve(key, HeaderMapOf(ae, al))

NextResolve ==
    ResolveCacheData \/ ResolveAddVariant \/ ResolveRemove \/ Resolve \/ Drop

SpecResolve == Init /\ [][NextResolve]_vars

(***************************************************************************)
(* Extension registry (extensions.rs).  An Id orders by priority alone; a  *)
(* registered extension is a closure, identified here by its registration  *)
(* number and the priority it was registered with.  Priorities are an i32  *)
(* scaled to the interval I32_MIN..I32_MAX.                                *)
(***************************************************************************)
I32_MIN == -4
I32_MAX == 3

Priorities == I32_MIN..(I32_MIN + PrioritySpan)

\* Id::new(priority, name) and Id::no_override
IdNew(priority) == [priority |-> priority, no_override |-> FALSE]

no_override(id) == [id EXCEPT !.no_override = TRUE]

Ids == {IdNew(p) : p \in Priorities} \cup {no_override(IdNew(p)) : p \in Priorities}

\* impl Ord for Id
IdCmpReversed(a, b) ==
    IF a.priority < b.priority THEN "Greater"
    ELSE IF a.priority > b.priority THEN "Less"
    ELSE "Equal"

IdCmp(a, b) ==
    IF a.priority < b.priority THEN "Less"
    ELSE IF a.priority > b.priority THEN "Greater"
    ELSE "Equal"

\* i32::checked_sub(1) and, for comparison, i32::wrapping_sub(1)
WrappingSub1(priority) ==
    IF priority = I32_MIN THEN <<I32_MAX>> ELSE <<priority - 1>>

CheckedSub1(priority) ==
    IF priority - 1 < I32_MIN THEN <<>> ELSE <<priority - 1>>

\* list.binary_search_by(|probe| id.cmp(&probe.0)) over the zero-based
\* range left..right; Ok(pos) or Err(pos)
RECURSIVE binary_search_by(_, _, _, _)
binary_search_by(list, id, left, right) ==
    IF left >= right
    THEN [ok |-> FALSE, pos |-> left]
    ELSE LET mid == left + ((right - left) \div 2)
             cmp == IdCmp(id, list[mid + 1].id)
         IN  IF cmp = "Less" THEN binary_search_by(list, id, mid + 1, right)
             ELSE IF cmp = "Greater" THEN binary_search_by(list, id, left, mid)
             ELSE [ok |-> TRUE, pos |-> mid]

\* Vec::insert(pos, element), pos zero-based
VecInsert(list, pos, element) ==
    SubSeq(list, 1, pos) \o <<element>> \o SubSeq(list, pos + 1, Len(list))

\* list[pos] = element and, for comparison, an insertion at pos
VecSetInserts(list, pos, element) == VecInsert(list, pos, element)

VecSet(list, pos, element) == [list EXCEPT ![pos + 1] = element]

\* add_sort_list!: the list after the registration, or a panic
RECURSIVE add_sort_list(_, _, _)
add_sort_list(list, id, ext) ==
    LET found == binary_search_by(list, id, 0, Len(list))
        element == [id |-> id, ext |-> ext]
    IN  IF found.ok /\ id.no_override
        THEN LET priority == CheckedSub1(id.priority)
             IN  IF priority # <<>>
                 THEN add_sort_list(list,
                                    [id EXCEPT !.priority = priority[1]], ext)
                 ELSE [panic |-> TRUE, list |-> list]
        ELSE IF found.ok
        THEN [panic |-> FALSE, list |-> VecSet(list, found.pos, element)]
        ELSE [panic |-> FALSE, list |-> VecInsert(list, found.pos, element)]

\* the closure handed to the registration that is made now
NewExt(c, id) == [n |-> nreg[c] + 1, asked |-> id.priority]

Registered ==
    nreg["prime"] + nreg["prepare_single"] + nreg["prepare_fn"]
        + nreg["package"] + nreg["post"]

CanRegister == Registered < MaxRegs /\ ~ panicked /\ run.phase = "none"

add_prime(id) ==
    LET r == add_sort_list(prime, id, NewExt("prime", id))
    IN  /\ prime' = r.list
        /\ panicked' = r.panic
        /\ nreg' = [nreg EXCEPT !["prime"] = @ + 1]
        /\ UNCHANGED <<prepare_single, prepare_fn, package, post, run>>

add_prepare_fn(id) ==
    LET r == add_sort_list(prepare_fn, id, NewExt("prepare_fn", id))
    IN  /\ prepare_fn' = r.list
        /\ panicked' = r.panic
        /\ nreg' = [nreg EXCEPT !["prepare_fn"] = @ + 1]
        /\ UNCHANGED <<prime, prepare_single, package, post, run>>

add_package(id) ==
    LET r == add_sort_list(package, id, NewExt("package", id))
    IN  /\ package' = r.list
        /\ panicked' = r.panic
        /\ nreg' = [nreg EXCEPT !["package"] = @ + 1]
        /\ UNCHANGED <<prime, prepare_single, prepare_fn, post, run>>

add_post(id) ==
    LET r == add_sort_list(post, id, NewExt("post", id))
    IN  /\ post' = r.list
        /\ panicked' = r.panic
        /\ nreg' = [nreg EXCEPT !["post"] = @ + 1]
        /\ UNCHANGED <<prime, prepare_single, prepare_fn, package, run>>

\* HashMap::insert(path, extension)
add_prepare_single(path) ==
    /\ prepare_single' = MapInsert(prepare_single, path,
                                   [n |-> nreg["prepare_single"] + 1])
    /\ nreg' = [nreg EXCEPT !["prepare_single"] = @ + 1]
    /\ UNCHANGED <<prime, prepare_fn, package, post, panicked, run>>

(***************************************************************************)
(* resolve_* (extensions.rs).  A URI path is its sequence of characters.   *)
(* What an extension returns is an input of the step.                      *)
(***************************************************************************)
RequestPath == <<"/", "a">>
PlainPath == <<"/", "b">>
SentinelPaths == {<<"/", ".", "/", "x">>, <<"/", ".", "/", "y">>}
Sentinel == <<"/", ".", "/">>

\* str::starts_with
StartsWith(path, prefix) ==
    /\ Len(path) >= Len(prefix)
    /\ SubSeq(path, 1, Len(prefix)) = prefix

\* what a Prime extension may return
PrimeReturns == Optional({PlainPath} \cup SentinelPaths)

\* one iteration of the loop of resolve_prime: the extension is called with
\* the request as it is now
PrimeStepKeepsRequest(st, element, returned) ==
    [request |-> st.request,
     uri |-> IF returned # <<>> /\ StartsWith(returned[1], Sentinel)
             THEN returned ELSE st.uri,
     calls |-> Append(st.calls, [ext |-> element.ext, saw |-> st.request,
                                 returned |-> returned])]

PrimeStep(st, element, returned) ==
    [request |-> IF returned # <<>> /\ ~ StartsWith(returned[1], Sentinel)
                 THEN returned[1] ELSE st.request,
     uri |-> IF returned # <<>> /\ StartsWith(returned[1], Sentinel)
             THEN returned ELSE st.uri,
     calls |-> Append(st.calls, [ext |-> element.ext, saw |-> st.request,
                                 returned |-> returned])]

RECURSIVE PrimeLoop(_, _, _, _)
PrimeLoop(list, returns, i, st) ==
    IF i > Len(list) THEN st
    ELSE PrimeLoop(list, returns, i + 1, PrimeStep(st, list[i], returns[i]))

resolve_prime(request, returns) ==
    LET st == PrimeLoop(prime, returns, 1,
                        [request |-> request, uri |-> <<>>, calls |-> <<>>])
    IN  /\ run' = [phase |-> "prime", calls |-> st.calls,
                   request |-> st.request, uri |-> st.uri]
        /\ UNCHANGED <<prime, prepare_single, prepare_fn, package, post,
                       nreg, panicked>>

\* for comparison: the position of the last predicate that holds
LastTrue(ifs, i) ==
    IF \E j \in i..Len(ifs) : ifs[j]
    THEN CHOOSE j \in i..Len(ifs) :
             ifs[j] /\ \A k \in (j + 1)..Len(ifs) : ~ ifs[k]
    ELSE 0

\* the position of the first prepare_fn whose predicate holds; 0 if none
RECURSIVE FirstTrue(_, _)
FirstTrue(ifs, i) ==
    IF i > Len(ifs) THEN 0
    ELSE IF ifs[i] THEN i
    ELSE FirstTrue(ifs, i + 1)

Exts(list) == [i \in 1..Len(list) |-> list[i].ext]

resolve_prepare(request, overide_uri, ifs) ==
    LET path == IF overide_uri # <<>> THEN overide_uri[1] ELSE request
        hit == FirstTrue(ifs, 1)
        args == [phase |-> "prepare", request |-> request,
                 overide_uri |-> overide_uri, ifs |-> ifs]
    IN  /\ run' =
              IF path \in DOMAIN prepare_single
              THEN args @@ [calls |-> <<>>,
                            response |-> <<prepare_single[path]>>]
              ELSE IF hit = 0
              THEN args @@ [calls |-> Exts(prepare_fn), response |-> <<>>]
              ELSE args @@ [calls |-> SubSeq(Exts(prepare_fn), 1, hit),
                            response |-> <<prepare_fn[hit].ext>>]
        /\ UNCHANGED <<prime, prepare_single, prepare_fn, package, post,
                       nreg, panicked>>

resolve_package ==
    /\ run' = [phase |-> "package", calls |-> Exts(package)]
    /\ UNCHANGED <<prime, prepare_single, prepare_fn, package, post,
                   nreg, panicked>>

\* all but the last get a clone of the bytes, the last gets the bytes
resolve_post ==
    LET n == IF Len(post) = 0 THEN 0 ELSE Len(post) - 1
        last == IF Len(post) = 0 THEN <<>> ELSE <<post[Len(post)].ext>>
    IN  /\ run' = [phase |-> "post",
                   calls |-> SubSeq(Exts(post), 1, n) \o last]
        /\ UNCHANGED <<prime, prepare_single, prepare_fn, package, post,
                       nreg, panicked>>

(***************************************************************************)
(* Specification of the registry: registrations and requests in any order. *)
(***************************************************************************)
AddPrime == /\ CanRegister
            /\ UNCHANGED <<cacheVars, fsVars, threadVars, pipeVars, reqVars>>
            /\ \E id \in Ids : add_prime(id)

AddPrepareFn == /\ CanRegister
                /\ UNCHANGED <<cacheVars, fsVars, threadVars, pipeVars, reqVars>>
                /\ \E id \in Ids : add_prepare_fn(id)

AddPackage == /\ CanRegister
              /\ UNCHANGED <<cacheVars, fsVars, threadVars, pipeVars, reqVars>>
              /\ \E id \in Ids : add_package(id)

AddPost == /\ CanRegister
           /\ UNCHANGED <<cacheVars, fsVars, threadVars, pipeVars, reqVars>>
           /\ \E id \in Ids : add_post(id)

AddPrepareSingle == /\ CanRegister
                    /\ UNCHANGED <<cacheVars, fsVars, threadVars, pipeVars, reqVars>>
                    /\ \E path \in SentinelPaths \cup {RequestPath} :
                           add_prepare_single(path)

Running == ~ panicked /\ run.phase = "none"

\* a request none of the prime extensions reacts to
ResolvePrimeNone ==
    /\ Running
    /\ UNCHANGED <<cacheVars, fsVars, threadVars, pipeVars, reqVars>>
    /\ \E returns \in [1..Len(prime) -> {<<>>}] :
           resolve_prime(RequestPath, returns)

ResolvePrepare ==
    /\ Running
    /\ UNCHANGED <<cacheVars, fsVars, threadVars, pipeVars, reqVars>>
    /\ \E overide_uri \in Optional(SentinelPaths),
          ifs \in [1..Len(prepare_fn) -> BOOLEAN] :
           resolve_prepare(RequestPath, overide_uri, ifs)

ResolvePackage == Running /\ UNCHANGED <<cacheVars, fsVars, threadVars, pipeVars, reqVars>> /\ resolve_package

ResolvePost == Running /\ UNCHANGED <<cacheVars, fsVars, threadVars, pipeVars, reqVars>> /\ resolve_post

\* the request is answered and its locals are dropped
RequestDone ==
    /\ run.phase # "none"
    /\ run' = NoRun
    /\ UNCHANGED <<cacheVars, fsVars, threadVars, pipeVars, reqVars, prime, prepare_single, prepare_fn,
                   package, post, nreg, panicked>>

NextExt ==
    \/ AddPrime
    \/ AddPrepareFn
    \/ AddPackage
    \/ AddPost
    \/ AddPrepareSingle
    \/ ResolvePrimeNone
    \/ ResolvePrepare
    \/ ResolvePackage
    \/ ResolvePost
    \/ RequestDone

SpecExt == Init /\ [][NextExt]_vars

(***************************************************************************)
(* Specification of the prime phase: prime extensions returning any of     *)
(* PrimeReturns.                                                           *)
(***************************************************************************)
ResolvePrime ==
    /\ Running
    /\ UNCHANGED <<cacheVars, fsVars, threadVars, pipeVars, reqVars>>
    /\ \E returns \in [1..Len(prime) -> PrimeReturns] :
           resolve_prime(RequestPath, returns)

NextPrime == AddPrime \/ ResolvePrime \/ RequestDone

SpecPrime == Init /\ [][NextPrime]_vars

(***************************************************************************)
(* Reading files through the file cache.  Each worker serves one GET       *)
(* request for a file; the caches start cold.  In lib.rs read_file takes   *)
(* the cache's lock with try_lock, in utility.rs read_file_cached waits    *)
(* for it; `reader` is the one the build uses.                             *)
(***************************************************************************)
Workers == 1..NumWorkers
Paths == 1..NumFiles

\* the bytes File::open and read_to_end give for a path
FileContents(path) == [type |-> "Vec", len |-> 1, file |-> path]

\* process_request gets to its read of the file
StartRequest(w, path, function) ==
    /\ pc[w] = "idle"
    /\ reader \in {"none", function}
    /\ reader' = function
    /\ req' = [req EXCEPT ![w] = path]
    /\ pc' = [pc EXCEPT ![w] = "lookup"]
    /\ UNCHANGED <<fs_map, fs_lock, buffer, body, reads>>

\* read_file: cache.try_lock(), WouldBlock goes on to the file
read_file_try_lock(w) ==
    /\ reader = "read_file"
    /\ pc[w] = "lookup"
    /\ IF fs_lock = 0
       THEN fs_lock' = w /\ pc' = [pc EXCEPT ![w] = "get"]
       ELSE fs_lock' = fs_lock /\ pc' = [pc EXCEPT ![w] = "open"]
    /\ UNCHANGED <<fs_map, req, buffer, body, reads, reader>>

\* read_file_cached: cache.lock().await
read_file_cached_lock(w) ==
    /\ reader = "read_file_cached"
    /\ pc[w] = "lookup"
    /\ fs_lock = 0
    /\ fs_lock' = w
    /\ pc' = [pc EXCEPT ![w] = "get"]
    /\ UNCHANGED <<fs_map, req, buffer, body, reads, reader>>

\* lock.get(path): a hit is returned; the guard is dropped either way
cache_get(w) ==
    /\ pc[w] = "get"
    /\ fs_lock = w
    /\ fs_lock' = 0
    /\ IF req[w] \in DOMAIN fs_map
       THEN /\ body' = [body EXCEPT ![w] = <<fs_map[req[w]]>>]
            /\ pc' = [pc EXCEPT ![w] = "done"]
       ELSE /\ body' = body
            /\ pc' = [pc EXCEPT ![w] = "open"]
    /\ UNCHANGED <<fs_map, req, buffer, reads, reader>>

\* File::open(path) and read_to_end(&mut buffer)
file_open(w) ==
    /\ pc[w] = "open"
    /\ reads' = [reads EXCEPT ![req[w]] = @ + 1]
    /\ buffer' = [buffer EXCEPT ![w] = <<FileContents(req[w])>>]
    /\ pc' = [pc EXCEPT ![w] = "store"]
    /\ UNCHANGED <<fs_map, fs_lock, req, body, reader>>

\* read_file: the second cache.try_lock(), WouldBlock returns the buffer
read_file_try_lock_store(w) ==
    /\ reader = "read_file"
    /\ pc[w] = "store"
    /\ IF fs_lock = 0
       THEN /\ fs_lock' = w
            /\ pc' = [pc EXCEPT ![w] = "cache"]
            /\ body' = body
       ELSE /\ fs_lock' = fs_lock
            /\ pc' = [pc EXCEPT ![w] = "done"]
            /\ body' = [body EXCEPT ![w] = buffer[w]]
    /\ UNCHANGED <<fs_map, req, buffer, reads, reader>>

\* read_file_cached: the second cache.lock().await
read_file_cached_lock_store(w) ==
    /\ reader = "read_file_cached"
    /\ pc[w] = "store"
    /\ fs_lock = 0
    /\ fs_lock' = w
    /\ pc' = [pc EXCEPT ![w] = "cache"]
    /\ UNCHANGED <<fs_map, req, buffer, body, reads, reader>>

\* lock.cache(path, buffer); read_file returns what the cache now holds (or
\* the rejected buffer), read_file_cached its buffer
cache_store(w) ==
    /\ pc[w] = "cache"
    /\ fs_lock = w
    /\ \E victim \in Victims(fs_map) :
           /\ fs_map' = CacheInsert(fs_map, req[w], buffer[w][1], victim)
           /\ body' = [body EXCEPT ![w] =
                  IF reader = "read_file"
                         /\ CacheResult(buffer[w][1]) = <<>>
                  THEN <<fs_map'[req[w]]>>
                  ELSE buffer[w]]
    /\ fs_lock' = 0
    /\ pc' = [pc EXCEPT ![w] = "done"]
    /\ UNCHANGED <<req, buffer, reads, reader>>

Start ==
    /\ UNCHANGED <<cacheVars, extVars, reqVars, threadVars, pipeVars>>
    /\ \E w \in Workers, path \in Paths,
          function \in {"read_file", "read_file_cached"} :
           StartRequest(w, path, function)

ReadFileTryLock ==
    UNCHANGED <<cacheVars, extVars, reqVars, threadVars, pipeVars>> /\ \E w \in Workers : read_file_try_lock(w)

ReadFileCachedLock ==
    /\ UNCHANGED <<cacheVars, extVars, reqVars, threadVars, pipeVars>>
    /\ \E w \in Workers : read_file_cached_lock(w)

CacheGet == UNCHANGED <<cacheVars, extVars, reqVars, threadVars, pipeVars>> /\ \E w \in Workers : cache_get(w)

FileOpen == UNCHANGED <<cacheVars, extVars, reqVars, threadVars, pipeVars>> /\ \E w \in Workers : file_open(w)

ReadFileTryLockStore ==
    /\ UNCHANGED <<cacheVars, extVars, reqVars, threadVars, pipeVars>>
    /\ \E w \in Workers : read_file_try_lock_store(w)

ReadFileCachedLockStore ==
    /\ UNCHANGED <<cacheVars, extVars, reqVars, threadVars, pipeVars>>
    /\ \E w \in Workers : read_file_cached_lock_store(w)

CacheStore ==
    UNCHANGED <<cacheVars, extVars, reqVars, threadVars, pipeVars>> /\ \E w \in Workers : cache_store(w)

NextFs ==
    \/ Start
    \/ ReadFileTryLock
    \/ ReadFileCachedLock
    \/ CacheGet
    \/ FileOpen
    \/ ReadFileTryLockStore
    \/ ReadFileCachedLockStore
    \/ CacheStore

SpecFs == Init /\ [][NextFs]_vars

(***************************************************************************)
(* CORS (extensions.rs).  A header value or an authority is the sequence   *)
(* of its parts ("https://", a host, ":", a port, a userinfo, "@"); a Uri  *)
(* is its scheme, authority and path.                                      *)
(***************************************************************************)
\* str::strip_prefix for a one-part prefix
StripPrefix(s, prefix) ==
    IF s # <<>> /\ s[1] = prefix THEN <<Tail(s)>> ELSE <<>>

\* the position of part c in s, 0 if absent
RECURSIVE Find(_, _, _)
Find(s, c, i) ==
    IF i > Len(s) THEN 0 ELSE IF s[i] = c THEN i ELSE Find(s, c, i + 1)

\* Uri::host and Uri::port_u16 of an authority
AuthorityHost(authority) ==
    LET at == Find(authority, "@", 1)
        rest == SubSeq(authority, at + 1, Len(authority))
        colon == Find(rest, ":", 1)
    IN  IF colon = 0 THEN rest ELSE SubSeq(rest, 1, colon - 1)

AuthorityPort(authority) ==
    LET at == Find(authority, "@", 1)
        rest == SubSeq(authority, at + 1, Len(authority))
        colon == Find(rest, ":", 1)
    IN  IF colon = 0 THEN <<>> ELSE SubSeq(rest, colon + 1, Len(rest))

\* Uri::try_from(origin): Ok(<<uri>>) or Err(<<>>)
UriTryFrom(value) ==
    IF value = <<>> THEN <<>>
    ELSE IF value[1] = "https://"
    THEN << [scheme |-> <<"https">>, authority |-> <<Tail(value)>>,
             path |-> <<"/">>] >>
    ELSE IF value[1] = "http://"
    THEN << [scheme |-> <<"http">>, authority |-> <<Tail(value)>>,
             path |-> <<"/">>] >>
    ELSE << [scheme |-> <<>>, authority |-> <<value>>, path |-> <<>>] >>

UriHost(uri) ==
    IF uri.authority = <<>> THEN <<>> ELSE <<AuthorityHost(uri.authority[1])>>

UriPort(uri) ==
    IF uri.authority = <<>> THEN <<>> ELSE AuthorityPort(uri.authority[1])

\* Cors::is_part_of_origin
is_part_of_origin(origin, uri) ==
    LET https == StripPrefix(origin, "https://")
        http == StripPrefix(origin, "http://")
        o == IF https # <<>>
             THEN (IF uri.scheme = <<"https">> THEN https ELSE <<>>)
             ELSE IF http # <<>> /\ uri.scheme = <<"http">> THEN http
             ELSE <<>>
    IN  o # <<>> /\ uri.authority # <<>> /\ uri.authority[1] = o[1]

\* CorsAllowList and its builder
CorsAllowList_new ==
    [allowed |-> <<>>, allow_all_origins |-> FALSE,
     methods |-> <<"GET", "HEAD", "OPTIONS">>, headers |-> <<>>]

InSeq(x, s) == \E i \in 1..Len(s) : s[i] = x

add_origin(list, allowed_origin) ==
    [list EXCEPT !.allowed = Append(@, UriTryFrom(allowed_origin)[1])]

allow_all_origins(list) == [list EXCEPT !.allow_all_origins = TRUE]

add_method(list, allowed_method) ==
    IF InSeq(allowed_method, list.methods) THEN list
    ELSE [list EXCEPT !.methods = Append(@, allowed_method)]

add_header(list, allowed_header) ==
    IF InSeq(allowed_header, list.headers) THEN list
    ELSE [list EXCEPT !.headers = Append(@, allowed_header)]

Granted(list) == << [methods |-> list.methods, headers |-> list.headers] >>

\* CorsAllowList::check
OriginListed(list, origin) ==
    \E i \in 1..Len(list.allowed) :
        LET allowed == list.allowed[i]
            scheme == IF allowed.scheme = <<>> THEN <<"https">>
                      ELSE allowed.scheme
        IN  /\ UriHost(allowed) = UriHost(origin)
            /\ UriPort(allowed) = UriPort(origin)
            /\ scheme = origin.scheme

CheckGrantsAll(list, origin) == Granted(list)

CorsAllowList_check(list, origin) ==
    IF list.allow_all_origins THEN Granted(list)
    ELSE IF OriginListed(list, origin) THEN Granted(list)
    ELSE <<>>

\* Cors::allow: the rule is pushed, then the rules are sorted (slice::sort_by
\* is stable)
EndsWithStar(path) == path # <<>> /\ path[Len(path)] = "*"

RuleCmpByLength(a, b) ==
    IF Len(b.path) < Len(a.path) THEN "Less"
    ELSE IF Len(b.path) > Len(a.path) THEN "Greater" ELSE "Equal"

RuleCmp(a, b) ==
    IF EndsWithStar(a.path) = EndsWithStar(b.path)
    THEN (IF Len(b.path) < Len(a.path) THEN "Less"
          ELSE IF Len(b.path) > Len(a.path) THEN "Greater" ELSE "Equal")
    ELSE IF EndsWithStar(a.path) THEN "Greater"
    ELSE "Less"

\* x goes before the first element that is greater than it
RECURSIVE SortedInsert(_, _, _)
SortedInsert(sorted, x, i) ==
    IF i > Len(sorted) THEN Append(sorted, x)
    ELSE IF RuleCmp(sorted[i], x) = "Greater"
    THEN SubSeq(sorted, 1, i - 1) \o <<x>> \o SubSeq(sorted, i, Len(sorted))
    ELSE SortedInsert(sorted, x, i + 1)

RECURSIVE sort_by(_, _, _)
sort_by(list, i, sorted) ==
    IF i > Len(list) THEN sorted
    ELSE sort_by(list, i + 1, SortedInsert(sorted, list[i], 1))

Cors_allow(self, path, allow_list) ==
    sort_by(Append(self, [path |-> path, allow |-> allow_list]), 1, <<>>)

\* Cors::check_origin
RuleMatches(path, uri_path) ==
    \/ path = uri_path
    \/ /\ EndsWithStar(path)
       /\ StartsWith(uri_path, SubSeq(path, 1, Len(path) - 1))

RECURSIVE FirstMatch(_, _, _)
FirstMatch(self, uri_path, i) ==
    IF i > Len(self) THEN 0
    ELSE IF RuleMatches(self[i].path, uri_path) THEN i
    ELSE FirstMatch(self, uri_path, i + 1)

check_origin(self, origin, uri_path) ==
    LET i == FirstMatch(self, uri_path, 1)
    IN  IF i = 0 THEN <<>> ELSE CorsAllowList_check(self[i].allow, origin)

\* Cors::check_cors_request
same_origin_allowed_headers ==
    << [methods |-> <<"GET", "HEAD", "OPTIONS">>, headers |-> <<>>] >>

check_cors_request(self, request) ==
    IF request.origin = <<>> THEN same_origin_allowed_headers
    ELSE IF is_part_of_origin(request.origin[1], request.uri)
    THEN same_origin_allowed_headers
    ELSE LET origin == UriTryFrom(request.origin[1])
         IN  IF origin = <<>> THEN <<>>
             ELSE LET found == check_origin(self, origin[1], request.uri.path)
                  IN  IF found # <<>> /\ InSeq(request.method, found[1].methods)
                      THEN found ELSE <<>>

(***************************************************************************)
(* Extensions::new() followed by add_cors(cors) and, on the host,          *)
(* set_http_redirect_to_https: the Prime list, the prepare_single map and  *)
(* what each extension does with a request                                 *)
(* [method, uri, origin, acrm (access-control-request-method is present)]. *)
(***************************************************************************)
CorsFail == <<"/", ".", "/", "cors_fail">>
CorsOptions == <<"/", ".", "/", "cors_options">>
ToHttps == <<"/", "..", "/", "to_https">>

CorsPrime ==
    LET uri_redirect == add_sort_list(<<>>, IdNew(-100), "uri_redirect").list
        disallow == add_sort_list(uri_redirect, IdNew(16777216),
                                  "disallow_cors").list
        cors == add_sort_list(disallow, IdNew(16777216), "cors").list
    IN  add_sort_list(cors, IdNew(16777215), "cors_options").list

CorsPrepareSingle ==
    MapInsert(MapInsert(MapInsert(EmptyMap, CorsFail, "cors_fail"),
                        ToHttps, "to_https"),
              CorsOptions, "cors_options")

\* the closures of add_uri_redirect, add_disallow_cors and add_cors
PrimeCall(ext, self, request) ==
    LET path == request.uri.path
        last == IF path = <<>> THEN "" ELSE path[Len(path)]
    IN  CASE ext = "uri_redirect" ->
                 IF last = "." THEN <<Append(path, "html")>>
                 ELSE IF last = "/" THEN <<Append(path, "index.html")>>
                 ELSE <<>>
          [] ext = "disallow_cors" ->
                 IF /\ request.origin # <<>>
                    /\ ~ is_part_of_origin(request.origin[1], request.uri)
                 THEN <<CorsFail>> ELSE <<>>
          [] ext = "cors" ->
                 IF check_cors_request(self, request) # <<>> THEN <<>>
                 ELSE <<CorsFail>>
          [] ext = "cors_options" ->
                 IF /\ request.method = "OPTIONS"
                    /\ request.origin # <<>>
                    /\ request.acrm
                 THEN <<CorsOptions>> ELSE <<>>

\* the loop of resolve_prime over these closures
RECURSIVE CorsPrimeLoop(_, _, _, _, _)
CorsPrimeLoop(list, i, st, self, request) ==
    IF i > Len(list) THEN st
    ELSE LET seen == [request EXCEPT !.uri.path = st.request]
         IN  CorsPrimeLoop(list, i + 1,
                           PrimeStep(st, list[i],
                                     PrimeCall(list[i].ext, self, seen)),
                           self, request)

\* the fold of the /./cors_options handler: the items, ", " between them
RECURSIVE JoinList(_, _, _)
JoinList(items, pos, acc) ==
    IF pos >= Len(items) THEN acc
    ELSE JoinList(items, pos + 1,
                  IF pos + 1 # Len(items)
                  THEN acc \o <<items[pos + 1], ", ">>
                  ELSE Append(acc, items[pos + 1]))

\* the Prepare closures registered under the sentinel paths
PrepareCall(name, self, request) ==
    CASE name = "cors_fail" ->
             [status |-> 403, body |-> "CORS request denied",
              headers |-> EmptyMap]
      [] name = "cors_options" ->
             LET allowed == check_cors_request(self, request)
             IN  [status |-> 204, body |-> "",
                  headers |->
                      IF allowed = <<>> THEN EmptyMap
                      ELSE MapInsert(
                               MapInsert(EmptyMap,
                                         "access-control-allow-methods",
                                         JoinList(allowed[1].methods, 0, <<>>)),
                               "access-control-allow-headers",
                               JoinList(allowed[1].headers, 0, <<>>))]
      [] name = "to_https" ->
             [status |-> 307, body |-> "",
              headers |-> MapInsert(EmptyMap, "location",
                                    <<"https://">> \o
                                    (IF request.uri.authority = <<>> THEN <<>>
                                     ELSE request.uri.authority[1]))]

\* the Package closures of add_no_referrer (10) and add_cors (-1024)
PackageCall(response, self, request) ==
    LET referrer == IF "referrer-policy" \in DOMAIN response.headers
                    THEN response.headers
                    ELSE MapInsert(response.headers, "referrer-policy",
                                   <<"no-referrer">>)
    IN  [response EXCEPT !.headers =
             IF /\ request.origin # <<>>
                /\ check_cors_request(self, request) # <<>>
             THEN MapInsert(referrer, "access-control-allow-origin",
                            request.origin[1])
             ELSE referrer]

\* resolve_prepare over prepare_single
PrepareSingle(single, request, overide_uri) ==
    LET path == IF overide_uri # <<>> THEN overide_uri[1]
                ELSE request.uri.path
    IN  IF path \in DOMAIN single THEN <<single[path]>> ELSE <<>>

\* the request driver: a raw sentinel path is answered NotFound; the Prime
\* extensions run; an invalid URI is answered 400; an override or the
\* request path selects a prepare_single handler; else the file is read for
\* GET and HEAD and 405 is answered for the rest; the Package extensions run
default_error(code) ==
    [status |-> code, body |-> "", headers |-> EmptyMap, handler |-> <<>>]

RejectsNothing(path) == FALSE

RejectsRaw(path) ==
    StartsWith(path, <<"/", ".", "/">>) \/ StartsWith(path, <<"/", "..", "/">>)

FailsValidation(path) ==
    \/ path = <<>>
    \/ StartsWith(path, <<".", "/">>)
    \/ StartsWith(path, <<"/", "/">>)

handle_request(self, raw) ==
    IF RejectsRaw(raw.uri.path) THEN default_error(404)
    ELSE LET st == CorsPrimeLoop(CorsPrime, 1,
                                 [request |-> raw.uri.path, uri |-> <<>>,
                                  calls |-> <<>>],
                                 self, raw)
             request == [raw EXCEPT !.uri.path = st.request]
             single == PrepareSingle(CorsPrepareSingle, request, st.uri)
             response ==
                 IF FailsValidation(st.request) THEN default_error(400)
                 ELSE IF single # <<>>
                 THEN LET made == PrepareCall(single[1], self, request)
                      IN  [status |-> made.status, body |-> made.body,
                           headers |-> made.headers, handler |-> single]
                 ELSE IF request.method \in {"GET", "HEAD"}
                 THEN [status |-> 200, body |-> "file", headers |-> EmptyMap,
                       handler |-> <<>>]
                 ELSE default_error(405)
         IN  PackageCall(response, self, request)

(***************************************************************************)
(* Specifications of CORS: rulesets built by Cors::allow, and requests     *)
(* classified and answered under them.                                     *)
(***************************************************************************)
RulePaths ==
    {<<"/", "a">>, <<"/", "b">>, <<"/", "*">>, <<"/", "a", "*">>,
     <<"/", "index.html">>}

OriginA == <<"https://", "a">>

AllowLists ==
    {CorsAllowList_new,
     add_header(add_method(add_origin(CorsAllowList_new, OriginA), "POST"),
                "x-h"),
     allow_all_origins(CorsAllowList_new)}

ServerUri(path) ==
    [scheme |-> <<"https">>, authority |-> << <<"s">> >>, path |-> path]

\* the same server addressed with a userinfo, or over http
OtherUris(path) ==
    {[scheme |-> <<"https">>, authority |-> << <<"u", "@", "s">> >>,
      path |-> path],
     [scheme |-> <<"http">>, authority |-> << <<"s">> >>, path |-> path]}

Origins ==
    {<<"https://", "s">>, OriginA, <<"http://", "a">>,
     <<"https://", "a", ":", "8080">>}

Methods == {"GET", "POST", "OPTIONS"}

RequestPaths == {<<"/", "a">>, <<"/", "a", "b">>, <<"/">>}

CheckedRequests ==
    {[method |-> m, uri |-> u, origin |-> o, acrm |-> FALSE] :
        m \in Methods,
        u \in UNION {{ServerUri(p)} \cup OtherUris(p) : p \in RequestPaths},
        o \in Optional(Origins)}

HandledRequests ==
    {[method |-> m, uri |-> ServerUri(p), origin |-> o, acrm |-> a] :
        m \in Methods,
        p \in RequestPaths \cup {CorsFail, CorsOptions, ToHttps},
        o \in Optional(Origins), a \in BOOLEAN}

Allow(max) ==
    /\ out.op = "none"
    /\ Len(rules) < max
    /\ \E path \in RulePaths, allow_list \in AllowLists :
           rules' = Cors_allow(rules, path, allow_list)
    /\ UNCHANGED <<cacheVars, extVars, fsVars, threadVars, pipeVars, hosts, out>>

CorsAllow == Allow(MaxCorsRules)

CheckCorsRequest ==
    /\ out.op = "none"
    /\ \E request \in CheckedRequests :
           out' = [op |-> "check", request |-> request,
                   allowed |-> check_cors_request(rules, request)]
    /\ UNCHANGED <<cacheVars, extVars, fsVars, threadVars, pipeVars, rules, hosts>>

HandleRequest ==
    /\ out.op = "none"
    /\ \E request \in HandledRequests :
           out' = [op |-> "handle", request |-> request,
                   response |-> handle_request(rules, request)]
    /\ UNCHANGED <<cacheVars, extVars, fsVars, threadVars, pipeVars, rules, hosts>>

\* the caller drops what it was answered
OutDone ==
    /\ out.op # "none"
    /\ out' = NoOut
    /\ UNCHANGED <<cacheVars, extVars, fsVars, threadVars, pipeVars, rules, hosts>>

NextCors == CorsAllow \/ CheckCorsRequest \/ HandleRequest \/ OutDone

SpecCors == Init /\ [][NextCors]_vars

\* Cors::new: the ruleset is built anew
CorsNew ==
    /\ rules # <<>>
    /\ rules' = <<>>
    /\ UNCHANGED <<cacheVars, extVars, fsVars, threadVars, pipeVars, hosts, out>>

CorsAllowMany == Allow(MaxRules)

NextCorsRules == CorsAllowMany \/ CorsNew

SpecCorsRules == Init /\ [][NextCorsRules]_vars

(***************************************************************************)
(* Present extensions.  Bytes are sequences of tokens: "!> ", a name or an *)
(* argument, " ", " &> ", "\n", a head line, the blank line that ends a    *)
(* head, content.  Offsets count tokens.                                   *)
(***************************************************************************)
Separators == {" ", " &> "}

\* the words of bytes from position `from` to position `to`, in order
RECURSIVE Words(_, _, _)
Words(bytes, from, to) ==
    IF from > to THEN <<>>
    ELSE (IF bytes[from] \in Separators THEN <<>> ELSE <<bytes[from]>>)
             \o Words(bytes, from + 1, to)

\* the groups of a directive line that ends at n, from the group that starts
\* at `from` on, in document order: each its name and its arguments
RECURSIVE Groups(_, _, _)
Groups(bytes, from, n) ==
    LET next == Find(bytes, " &> ", from)
        to == IF next = 0 \/ next > n THEN n ELSE next
    IN  << [name |-> bytes[from], args |-> Words(bytes, from + 1, to - 1),
            at |-> from] >>
            \o (IF to = n THEN <<>> ELSE Groups(bytes, to + 1, n))

\* the directive at the start of a content: Some([names, data_start]), or None
\* when there is none or the parser rejects it
PresentExtensions_new(bytes) ==
    LET n == Find(bytes, "\n", 1)
        starts == {2} \cup {i + 1 : i \in {j \in 2..(n - 1) : bytes[j] = " &> "}}
        ok == /\ n > 2
              /\ bytes[1] = "!> "
              /\ \A i \in starts : i < n /\ bytes[i] \notin Separators
              /\ \A i \in 2..(n - 2) :
                     bytes[i] = " " => bytes[i + 1] \notin Separators
              /\ bytes[n - 1] \notin Separators
    IN  IF ok
        THEN << [names |-> {bytes[i] : i \in starts}, data_start |-> n,
                 groups |-> Groups(bytes, 2, n)] >>
        ELSE <<>>

extension_args(bytes) ==
    LET found == PresentExtensions_new(bytes)
    IN  IF found = <<>>
        THEN [args |-> {}, content_start |-> 0, segments |-> <<>>]
        ELSE [args |-> found[1].names, content_start |-> found[1].data_start,
              segments |-> found[1].groups]

\* cache::ByteResponse
get_start(bytes) == Find(bytes, "\r\n\r\n", 1)

with_header(bytes) ==
    [type |-> "Merged", vec |-> bytes, start |-> get_start(bytes),
     last |-> <<>>, partial |-> FALSE]

with_partial_header(bytes) ==
    [type |-> "Merged", vec |-> bytes, start |-> get_start(bytes),
     last |-> <<>>, partial |-> TRUE]

without_header(content) ==
    [type |-> "Body", vec |-> content, start |-> 0, last |-> <<>>,
     partial |-> FALSE]

without_header_shared(shared_body) ==
    [type |-> "BorrowedBody", vec |-> shared_body, start |-> 0, last |-> <<>>,
     partial |-> FALSE]

Both(head, content) ==
    [type |-> "Both", vec |-> head, start |-> 0, last |-> content,
     partial |-> FALSE]

get_head(response) ==
    IF response.type = "Merged" /\ response.start > 0
    THEN <<SubSeq(response.vec, 1, response.start)>>
    ELSE IF response.type = "Both" THEN <<response.vec>>
    ELSE <<>>

get_body(response) ==
    IF response.type = "Merged"
    THEN SubSeq(response.vec, response.start + 1, Len(response.vec))
    ELSE IF response.type = "Both" THEN response.last
    ELSE response.vec

\* `*vec = vec[content_start..].to_vec()` on get_first_vec()
CutFirstVec(response, content_start) ==
    [response EXCEPT !.type = IF @ = "BorrowedBody" THEN "Body" ELSE @,
                     !.vec = SubSeq(@, content_start + 1, Len(@))]

\* the extensions registered by name; they read the response they are given
PresentNames == {"tmpl"}

\* "Apply extensions" of process_request
apply_extensions(byte_response) ==
    LET found == extension_args(get_body(byte_response))
        cut == CutFirstVec(byte_response, found.content_start)
    IN  [seen |-> IF found.args \cap PresentNames = {} THEN <<>>
                  ELSE << [head |-> get_head(cut), body |-> get_body(cut)] >>,
         head |-> get_head(cut), body |-> get_body(cut)]

\* Extensions::resolve_present on a Response<Bytes>
resolve_present(head, content) ==
    LET extensions == PresentExtensions_new(content)
        split == IF extensions = <<>> THEN content
                 ELSE SubSeq(content, extensions[1].data_start + 1, Len(content))
    IN  [seen |-> IF extensions = <<>>
                     \/ extensions[1].names \cap PresentNames = {}
                  THEN <<>>
                  ELSE << [head |-> <<head>>, body |-> split] >>,
         head |-> <<head>>, body |-> split]

\* the request paths of resolve_present: what utils::parse::uri makes of the
\* URI path, None or a path with or without a file extension
PresentPaths ==
    Optional({[stem |-> "a", extension |-> e] :
                  e \in Optional({"html", "txt"})})

\* Path::extension and OsStr::to_str
PathExtension(path) ==
    IF path = <<>> THEN <<>> ELSE path[1].extension

\* the calls of the present_internal loop from group i on
RECURSIVE InternalCalls(_, _, _)
InternalCalls(groups, i, present_internal) ==
    IF i > Len(groups) THEN <<>>
    ELSE (IF groups[i].name \in present_internal
          THEN << [kind |-> "internal", name |-> groups[i].name,
                   args |-> groups[i].args, at |-> groups[i].at] >>
          ELSE <<>>)
             \o InternalCalls(groups, i + 1, present_internal)

\* the call of the present_file extension, with PresentArguments::empty()
FileCalls(path, present_file) ==
    LET extension == PathExtension(path)
    IN  IF extension # <<>> /\ extension[1] \in present_file
        THEN << [kind |-> "file", name |-> extension[1], args |-> <<>>,
                 at |-> 0] >>
        ELSE <<>>

\* for comparison: the present_file extension is called first
present_calls_file_first(content, path, present_internal, present_file) ==
    LET extensions == PresentExtensions_new(content)
    IN  FileCalls(path, present_file)
            \o (IF extensions = <<>> THEN <<>>
                ELSE InternalCalls(extensions[1].groups, 1, present_internal))

\* the extensions Extensions::resolve_present calls, in the order of the calls
present_calls(content, path, present_internal, present_file) ==
    LET extensions == PresentExtensions_new(content)
    IN  (IF extensions = <<>> THEN <<>>
         ELSE InternalCalls(extensions[1].groups, 1, present_internal))
            \o FileCalls(path, present_file)

(***************************************************************************)
(* Specification of the present step: responses with and without a         *)
(* directive, from a binding, from a file and as an error page.            *)
(***************************************************************************)
\* a head longer than any directive line
OkHead ==
    <<"HTTP/1.1 200 OK\r\n", "Server: ", "Arktis", "\r\n", "Connection: ",
      "Close", "\r\n\r\n">>

DirectiveLines ==
    {start \o middle \o end :
        start \in {<<>>, <<"!> ">>},
        middle \in SeqsUpTo({"tmpl", "a", " ", " &> "}, MaxDirective),
        end \in {<<>>, <<"\n">>}}

Bodies ==
    {line \o rest : line \in DirectiveLines,
                    rest \in {<<"x">>, <<"!> ", "x">>}}

ProcessRequest ==
    /\ out.op = "none"
    /\ \E content \in Bodies :
       \E byte_response \in {with_header(OkHead \o content), without_header(content),
                             Both(OkHead, content)} :
           out' = [op |-> "present", driver |-> "process_request",
                   head |-> get_head(byte_response), body |-> content,
                   present |-> apply_extensions(byte_response)]
    /\ UNCHANGED <<cacheVars, extVars, fsVars, threadVars, pipeVars, rules, hosts>>

ResolvePresent ==
    /\ out.op = "none"
    /\ \E content \in Bodies, path \in PresentPaths,
          present_internal \in SUBSET {"tmpl", "a"},
          present_file \in SUBSET {"html"} :
           out' = [op |-> "present", driver |-> "resolve_present",
                   head |-> <<OkHead>>, body |-> content,
                   present |-> resolve_present(OkHead, content),
                   path |-> path, present_internal |-> present_internal,
                   present_file |-> present_file,
                   calls |-> present_calls(content, path, present_internal,
                                           present_file)]
    /\ UNCHANGED <<cacheVars, extVars, fsVars, threadVars, pipeVars, rules, hosts>>

NextPresent == ProcessRequest \/ ResolvePresent \/ OutDone

SpecPresent == Init /\ [][NextPresent]_vars

(***************************************************************************)
(* HostData (host.rs): the default host and the hosts by name.  A Host is  *)
(* its name and its optional certificate; a returned &Host is the slot it  *)
(* lives in and the host.                                                  *)
(***************************************************************************)
HostData_new(default_host) == [default |-> <<default_host>>, by_name |-> EmptyMap]

HostData_add_host(self, host_name, host_data) ==
    [self EXCEPT !.by_name = MapInsert(@, host_name, host_data)]

get_default(self) == [slot |-> "default", host |-> self.default[1]]

get_host(self, host) ==
    IF host \in DOMAIN self.by_name
    THEN << [slot |-> "by_name", host |-> self.by_name[host]] >>
    ELSE <<>>

get_or_default(self, host) ==
    IF get_host(self, host) # <<>> THEN get_host(self, host)[1]
    ELSE get_default(self)

maybe_get_or_default(self, maybe_host) ==
    IF maybe_host # <<>> THEN get_or_default(self, maybe_host[1])
    ELSE get_default(self)

SmartGetHeaderFirst(self, header, sni_hostname) ==
    maybe_get_or_default(self, IF header # <<>> THEN header ELSE sni_hostname)

\* header is what get_header finds: the Host header of the request
smart_get(self, header, sni_hostname) ==
    maybe_get_or_default(self,
                         IF sni_hostname # <<>> THEN sni_hostname ELSE header)

ResolveFallsBack(self, server_name) ==
    LET host == maybe_get_or_default(self, server_name).host
    IN  IF host.certificate # <<>> THEN host.certificate
        ELSE self.default[1].certificate

\* impl ResolvesServerCert for HostData
resolve_cert(self, server_name) ==
    IF server_name # <<>>
    THEN (IF server_name[1] \in DOMAIN self.by_name
          THEN self.by_name[server_name[1]]
          ELSE self.default[1]).certificate
    ELSE self.default[1].certificate

(***************************************************************************)
(* Specification of the host multiplexer.                                  *)
(***************************************************************************)
HostNames == {"a.org", "b.org", "c.org"}

Hosts ==
    {[host_name |-> n, certificate |-> c] :
        n \in HostNames, c \in Optional({"cert 1", "cert 2"})}

HostDataNew ==
    /\ out.op = "none"
    /\ hosts.default = <<>>
    /\ \E default_host \in Hosts : hosts' = HostData_new(default_host)
    /\ UNCHANGED <<cacheVars, extVars, fsVars, threadVars, pipeVars, rules, out>>

AddHost ==
    /\ out.op = "none"
    /\ hosts.default # <<>>
    /\ Cardinality(DOMAIN hosts.by_name) < MaxHosts
    /\ \E host_data \in Hosts :
           hosts' = HostData_add_host(hosts, host_data.host_name, host_data)
    /\ UNCHANGED <<cacheVars, extVars, fsVars, threadVars, pipeVars, rules, out>>

SmartGet ==
    /\ out.op = "none"
    /\ hosts.default # <<>>
    /\ \E header \in Optional(HostNames), sni_hostname \in Optional(HostNames) :
           out' = [op |-> "smart_get", header |-> header,
                   sni_hostname |-> sni_hostname,
                   got |-> smart_get(hosts, header, sni_hostname)]
    /\ UNCHANGED <<cacheVars, extVars, fsVars, threadVars, pipeVars, rules, hosts>>

ResolveCert ==
    /\ out.op = "none"
    /\ hosts.default # <<>>
    /\ \E server_name \in Optional(HostNames) :
           out' = [op |-> "resolve", server_name |-> server_name,
                   certificate |-> resolve_cert(hosts, server_name)]
    /\ UNCHANGED <<cacheVars, extVars, fsVars, threadVars, pipeVars, rules, hosts>>

NextHosts == HostDataNew \/ AddHost \/ SmartGet \/ ResolveCert \/ OutDone

SpecHosts == Init /\ [][NextHosts]_vars

(***************************************************************************)
(* The choice of the content encoding (lib.rs).  A header is the sequence  *)
(* of its items <<value, quality>>, the quality in tenths.                 *)
(***************************************************************************)
to_ascii_lowercase(raw) ==
    [i \in 1..Len(raw) |->
        <<IF raw[i][1] = "GZIP" THEN "gzip" ELSE raw[i][1], raw[i][2]>>]

\* options.sort_by(|a, b| b.quality.partial_cmp(&a.quality)): stable, the
\* higher quality first
RECURSIVE SortByQuality(_, _, _)
SortByQuality(options, i, sorted) ==
    IF i > Len(options) THEN sorted
    ELSE LET later == {j \in 1..Len(sorted) :
                          sorted[j].quality < options[i].quality}
             at == IF later = {} THEN Len(sorted) + 1 ELSE Min(later)
         IN  SortByQuality(options, i + 1,
                           SubSeq(sorted, 1, at - 1) \o <<options[i]>>
                               \o SubSeq(sorted, at, Len(sorted)))

compression_from_header(header) ==
    LET options == SortByQuality(
                       format_list_header(to_ascii_lowercase(header)),
                       1, <<>>)
        identity == {i \in 1..Len(options) : options[i].value = "identity"}
        identity_forbidden ==
            identity # {} /\ options[Min(identity)].quality = 0
    IN  IF \/ options = <<>>
           \/ \E i \in 1..Len(options) :
                  options[i] = [value |-> "br", quality |-> 10]
        THEN [algorithm |-> "br", identity_forbidden |-> identity_forbidden]
        ELSE [algorithm |-> IF options[1].value \in {"gzip", "br"}
                            THEN options[1].value ELSE "identity",
              identity_forbidden |-> identity_forbidden]

\* `let compression = ...` of process_request; compressed tells whether the
\* content type is of an already compressed family
compression(header, compressed) ==
    IF header = <<>> THEN [algorithm |-> "identity", error |-> <<>>]
    ELSE LET chosen == compression_from_header(header[1])
         IN  IF compressed
             THEN (IF chosen.identity_forbidden
                   THEN [algorithm |-> chosen.algorithm, error |-> <<406>>]
                   ELSE [algorithm |-> "identity", error |-> <<>>])
             ELSE [algorithm |-> chosen.algorithm, error |-> <<>>]

(***************************************************************************)
(* Specification of the choice of the content encoding.                    *)
(***************************************************************************)
EncodingItems ==
    {<<v, q>> : v \in {"br", "gzip", "GZIP", "identity", "deflate"},
                q \in {0, 5, 10}}

Compress ==
    /\ out.op = "none"
    /\ \E header \in Optional(SeqsUpTo(EncodingItems, MaxTokens)),
          compressed \in BOOLEAN :
           out' = [op |-> "compress", header |-> header,
                   compressed |-> compressed,
                   chosen |-> compression(header, compressed)]
    /\ UNCHANGED <<cacheVars, extVars, fsVars, threadVars, pipeVars, rules, hosts>>

NextCompress == Compress \/ OutDone

SpecCompress == Init /\ [][NextCompress]_vars

(***************************************************************************)
(* process_request (lib.rs): a request is answered from the response       *)
(* cache, by a function binding or from a file, the response is given its  *)
(* head, written and cached.  A head is a sequence of tokens: a status     *)
(* line, the name of a header with its colon, the value of a header,       *)
(* "\r\n", and "\r\n\r\n" where the head ends.                             *)
(***************************************************************************)
LINE_ENDING == "\r\n"

SERVER_HEADER == <<"Server: ", "Arktis/0.1.0 (Unix)", "\r\n">>

\* Vec::extend on bytes: a line ending that follows a line ending is the
\* blank line that ends a head
extend(vec, bytes) ==
    IF /\ vec # <<>> /\ bytes # <<>>
       /\ vec[Len(vec)] = "\r\n" /\ bytes[1] = "\r\n"
    THEN SubSeq(vec, 1, Len(vec) - 1) \o <<"\r\n\r\n">> \o Tail(bytes)
    ELSE vec \o bytes

\* `if head.ends_with(&[CR, LF]) { head.truncate(head.len() - 2) }`
TruncateLineEnding(head) ==
    IF head = <<>> THEN head
    ELSE IF head[Len(head)] = "\r\n\r\n"
    THEN SubSeq(head, 1, Len(head) - 1) \o <<"\r\n">>
    ELSE IF head[Len(head)] = "\r\n"
    THEN SubSeq(head, 1, Len(head) - 1)
    ELSE head

\* the status line of a code, as http::StatusCode displays it
StatusLine(code) ==
    CASE code = 200 -> "HTTP/1.1 200 OK\r\n"
      [] code = 403 -> "HTTP/1.1 403 Forbidden\r\n"
      [] code = 404 -> "HTTP/1.1 404 Not Found\r\n"
      [] code = 405 -> "HTTP/1.1 405 Method Not Allowed\r\n"
      [] code = 406 -> "HTTP/1.1 406 Not Acceptable\r\n"

StatusCodes == {200, 403, 404, 405, 406}

starts_with_HTTP(bytes) ==
    bytes # <<>> /\ \E code \in StatusCodes : bytes[1] = StatusLine(code)

\* the name a token of a head gives a header, "" when it is not a name
HeaderNameOf(token) ==
    CASE token = "Connection: "       -> "connection"
      [] token = "Content-Encoding: " -> "content-encoding"
      [] token = "Content-Length: "   -> "content-length"
      [] token = "Content-Type: "     -> "content-type"
      [] token = "Cache-Control: "    -> "cache-control"
      [] token = "Vary: "             -> "vary"
      [] token = "Server: "           -> "server"
      [] OTHER -> ""

\* parse::parse_only_headers: the headers of a head, each with its first
\* value
parse_only_headers(bytes) ==
    LET at(name) == {i \in 1..(Len(bytes) - 1) : HeaderNameOf(bytes[i]) = name}
        names == {HeaderNameOf(bytes[i]) : i \in 1..(Len(bytes) - 1)} \ {""}
    IN  [name \in names |-> bytes[Min(at(name)) + 1]]

\* Cached::as_bytes, do_internal_cache and cached_without_query
Cached_as_bytes(cached) ==
    CASE cached = "Dynamic"  -> <<"Cache-Control: ", "no-store", "\r\n">>
      [] cached = "Changing" -> <<"Cache-Control: ", "max-age=120", "\r\n">>
      [] OTHER -> <<"Cache-Control: ", "public, max-age=604800, immutable",
                    "\r\n">>

do_internal_cache(cached) == cached \in {"Static", "PerQuery"}

cached_without_query(cached) == cached = "Static"

\* Compressors::compress: identity copies the bytes, an encoder frames what
\* it makes of them
Compressors_compress(bytes, compressor) ==
    IF compressor = "identity" THEN bytes
    ELSE <<compressor \o " stream">> \o bytes \o <<"end of stream">>

\* the page default_error writes when the file cache has none for the code
HardcodedPage(code) ==
    <<"<html><head><title>", ToString(code), "</title></head></html>">>

\* default_error of lib.rs; file is the page <code>.html of the file cache
lib_default_error(code, close, file) ==
    LET content == IF file # <<>> THEN file[1] ELSE HardcodedPage(code)
    IN  Both(<<StatusLine(code), "Content-Type: ", "text/html", "\r\n",
               "Connection: ", IF close = "close" THEN "Close" ELSE "Keep-Alive",
               "\r\n", "Content-Encoding: ", "identity", "\r\n",
               "Content-Length: ", ToString(Len(content)), "\r\n\r\n">>,
             content)

\* parse::convert_uri: the path of the file a URI names, None for a URI
\* that leaves the served directory
convert_uri(uri) == IF uri.forbidden THEN <<>> ELSE <<uri>>

\* ContentType::as_str
ContentType_as_str(content_type, path) ==
    CASE content_type = "Html" -> "text/html"
      [] content_type = "AutoOrDownload" /\ path.extension = <<"html">>
             -> "text/html"
      [] content_type = "AutoOrDownload" /\ path.extension = <<"jpg">>
             -> "image/jpeg"
      [] OTHER -> "application/octet-stream"

\* the filter of process_request for compressed formats
IsCompressedFormat(content_str) ==
    content_str \in {"image/jpeg", "application/octet-stream"}

\* "Get from function or cache": the binding's buffer, or the file
Generate(request, env, path) ==
    IF env.binding # <<>>
    THEN [byte_response |-> IF starts_with_HTTP(env.binding[1].response)
                            THEN with_header(env.binding[1].response)
                            ELSE without_header(env.binding[1].response),
          content_type |-> env.binding[1].content_type,
          cached |-> env.binding[1].cached,
          allowed_method |-> TRUE]
    ELSE [byte_response |-> IF env.file # <<>>
                            THEN without_header_shared(env.file[1])
                            ELSE lib_default_error(404, env.close, env.error_file),
          content_type |-> "AutoOrDownload",
          cached |-> "Static",
          allowed_method |-> request.method \in {"GET", "HEAD"}]

\* what an extension makes of the response it is run with: it leaves it, or
\* replaces it by one with a partial head
PartialHead(effect, content) ==
    CASE effect = "type" -> <<"Content-Type: ", "text/html", "\r\n\r\n">>
      [] effect = "length" ->
             <<StatusLine(200), "Content-Length: ", ToString(Len(content)),
               "\r\n\r\n">>
      [] effect = "vary" ->
             <<"Vary: ", "Cookie", "\r\n", "Content-Encoding: ", "identity",
               "\r\n\r\n">>

Extension_run(byte_response, effect) ==
    IF effect = "none" THEN byte_response
    ELSE with_partial_header(
             PartialHead(effect, get_body(byte_response))
                 \o get_body(byte_response))

\* the loop over the segments of the directive
RECURSIVE RunSegments(_, _, _, _, _)
RunSegments(segments, i, byte_response, st, env) ==
    IF i > Len(segments) THEN byte_response
    ELSE RunSegments(segments, i + 1,
             IF segments[i].name \in DOMAIN env.names
             THEN Extension_run(byte_response, env.names[segments[i].name])
             ELSE IF st.allowed_method THEN byte_response
             ELSE lib_default_error(405, env.close, env.error_file),
             st, env)

\* "Apply extensions", with the answer to a method that is not allowed
ApplyExtensions(st, env, path) ==
    LET found == extension_args(get_body(st.byte_response))
        cut == CutFirstVec(st.byte_response, found.content_start)
        named == RunSegments(found.segments, 1, cut, st, env)
    IN  IF path.extension = <<>> THEN named
        ELSE IF path.extension[1] \in DOMAIN env.file_extensions
        THEN Extension_run(named, env.file_extensions[path.extension[1]])
        ELSE IF st.allowed_method THEN named
        ELSE lib_default_error(405, env.close, env.error_file)

\* the headers named by `vary`, as the head lists them
VaryHeader(vary) ==
    IF vary = <<>> THEN <<>>
    ELSE <<"Vary: ">> \o JoinList(vary, 0, <<>>) \o <<"\r\n">>

\* the Content-Length header process_request adds to a partial head
HeadWithLength(head, present_headers, content) ==
    IF "content-length" \notin DOMAIN present_headers
    THEN extend(head, <<"Content-Length: ", ToString(Len(content)), "\r\n">>)
    ELSE head

\* `let response = match byte_response`: the response with its head
ResponseOf(byte_response, algorithm, content_str, cached, close, vary) ==
    IF byte_response.type \in {"Merged", "Both"} /\ byte_response.partial
    THEN LET partial_head == get_head(byte_response)[1]
             begun == IF starts_with_HTTP(partial_head) THEN <<>>
                      ELSE <<StatusLine(200)>>
             present_headers == parse_only_headers(partial_head)
             compress == "content-encoding" \notin DOMAIN present_headers
             varies == "vary" \in DOMAIN present_headers
             content == IF compress /\ ~ varies
                        THEN Compressors_compress(get_body(byte_response),
                                                  algorithm)
                        ELSE get_body(byte_response)
             h1 == TruncateLineEnding(extend(begun, partial_head))
             h2 == IF "connection" \notin DOMAIN present_headers
                   THEN extend(h1, <<"Connection: ", close, "\r\n">>)
                   ELSE h1
             h3 == IF compress /\ ~ varies
                   THEN extend(h2, <<"Content-Encoding: ", algorithm, "\r\n">>)
                   ELSE h2
             h4 == HeadWithLength(h3, present_headers, content)
             h5 == IF "content-type" \notin DOMAIN present_headers
                   THEN extend(h4, <<"Content-Type: ", content_str, "\r\n">>)
                   ELSE h4
             h6 == IF "cache-control" \notin DOMAIN present_headers
                   THEN extend(h5, Cached_as_bytes(cached))
                   ELSE h5
             h7 == IF ~ varies THEN extend(h6, VaryHeader(vary)) ELSE h6
         IN  Both(extend(extend(h7, SERVER_HEADER), <<LINE_ENDING>>), content)
    ELSE IF byte_response.type \in {"Body", "BorrowedBody"}
    THEN LET content == Compressors_compress(get_body(byte_response),
                                             algorithm)
         IN  Both(extend(<<StatusLine(200), "Connection: ", close, "\r\n",
                           "Content-Encoding: ", algorithm, "\r\n",
                           "Content-Length: ", ToString(Len(content)), "\r\n",
                           "Content-Type: ", content_str, "\r\n">>
                             \o Cached_as_bytes(cached) \o VaryHeader(vary)
                             \o SERVER_HEADER,
                         <<LINE_ENDING>>),
                  content)
    ELSE byte_response

\* ByteResponse::write_as_method: the bytes written to the socket
write_as_method(response, method) ==
    IF method = "HEAD"
    THEN (IF get_head(response) # <<>> THEN get_head(response)[1] ELSE <<>>)
    ELSE IF response.type = "Both" THEN response.vec \o response.last
    ELSE response.vec

\* the headers of the variant process_request stores: for each header of
\* `vary` the value of the response's header it stands for, None when the
\* head lacks one
VariantHeadersOf(head, vary) ==
    LET headers == parse_only_headers(head)
        name(i) == IF vary[i] = "Accept-Encoding" THEN "content-encoding"
                   ELSE ToAsciiLowercase(vary[i])
    IN  IF \A i \in 1..Len(vary) : name(i) \in DOMAIN headers
        THEN << [i \in 1..Len(vary) |-> headers[name(i)]] >>
        ELSE <<>>

\* a response as the response cache holds it; every response is one unit
\* of the cache's size
Cacheable(response) == [len |-> 1, bytes |-> response]

\* the default error a response is, 0 when it is none
ErrorOf(byte_response, env) ==
    IF byte_response = lib_default_error(406, env.close, env.error_file)
    THEN 406
    ELSE IF byte_response = lib_default_error(405, env.close, env.error_file)
    THEN 405
    ELSE IF byte_response = lib_default_error(404, env.close, env.error_file)
    THEN 404
    ELSE 0

\* `return response.write_as_method(socket, request.method())` of a hit
WriteCached(hit, request) ==
    [written |-> write_as_method(hit[1].bytes, request.method),
     response |-> hit[1].bytes, from |-> "cache", error |-> 0,
     store |-> <<>>]

\* the end of process_request: the response is written and, if it may be
\* cached and its head has the headers of `vary`, stored as a variant
WriteAndStore(request, env, st, byte_response, response, vary, variant) ==
    [written |-> write_as_method(response, request.method),
     response |-> response,
     from |-> IF env.binding # <<>> THEN "binding" ELSE "file",
     error |-> ErrorOf(byte_response, env),
     store |-> IF /\ request.method \in {"GET", "HEAD"}
                  /\ do_internal_cache(st.cached)
                  /\ variant # <<>>
               THEN << [key |-> request.uri,
                        response |-> Cacheable(response),
                        headers |-> variant[1],
                        structure |-> vary] >>
               ELSE <<>>]

\* process_request from `let response = match byte_response` on
Respond(request, env, st, byte_response, response, vary) ==
    WriteAndStore(request, env, st, byte_response, response, vary,
                  VariantHeadersOf(get_head(response)[1], vary))

\* process_request once the compression is chosen: a request that accepts
\* no encoding the response may have is answered with 406
Compressed(request, env, st, shown, content_str, chosen, vary) ==
    IF chosen.error # <<>>
    THEN Respond(request, env, st,
                 lib_default_error(406, env.close, env.error_file),
                 ResponseOf(lib_default_error(406, env.close, env.error_file),
                            chosen.algorithm, content_str, st.cached,
                            env.close, vary),
                 vary)
    ELSE Respond(request, env, st, shown,
                 ResponseOf(shown, chosen.algorithm, content_str, st.cached,
                            env.close, vary),
                 vary)

\* process_request after "Apply extensions": the second look into the
\* cache, then the content type and the compression
Shown(request, env, st, shown, again, content_str) ==
    IF again # <<>> THEN WriteCached(again, request)
    ELSE Compressed(request, env, st, shown, content_str,
                    compression(request.accept_encoding,
                                IsCompressedFormat(content_str)),
                    <<"Accept-Encoding">>)

\* process_request once the response is generated
Generated(m, request, env, path, st, headers) ==
    Shown(request, env, st, ApplyExtensions(st, env, path),
          IF cached_without_query(st.cached)
          THEN Cache_resolve(m, request.uri, headers) ELSE <<>>,
          ContentType_as_str(st.content_type, path))

\* the answer to a URI that leaves the served directory
Refused(refused) ==
    [written |-> refused.vec \o refused.last, response |-> refused,
     from |-> "error", error |-> 403, store |-> <<>>]

\* process_request after the first look into the cache
Looked(m, request, env, hit, path, headers) ==
    IF hit # <<>> THEN WriteCached(hit, request)
    ELSE IF path = <<>>
    THEN Refused(lib_default_error(403, env.close, env.error_file))
    ELSE Generated(m, request, env, path[1],
                   Generate(request, env, path[1]), headers)

\* process_request on the response cache m: what is written to the socket,
\* the response it is written from, the default error it is (0 for none)
\* and the variant to store
process_request(m, request, env) ==
    Looked(m, request, env,
           IF request.method \in {"GET", "HEAD"}
           THEN Cache_resolve(m, request.uri,
                              HeaderMapOf(request.accept_encoding, <<>>))
           ELSE <<>>,
           convert_uri(request.uri),
           HeaderMapOf(request.accept_encoding, <<>>))

(***************************************************************************)
(* The default errors of utility.rs.                                       *)
(***************************************************************************)
hardcoded_error_body(code, message) ==
    <<"<html><head><title>", ToString(code), "</title></head><body>">>
        \o (IF message # <<>> THEN <<"<p>", message[1], "</p>">> ELSE <<>>)
        \o <<"</body></html>">>

\* host is None or Some of the Host, of which the file errors/<code>.html
\* (None when it cannot be read) matters
utility_default_error(code, host, message) ==
    LET headers == [name \in {"content-type", "content-encoding"} |->
                       IF name = "content-type"
                       THEN "text/html; charset=utf-8" ELSE "identity"]
    IN  [status |-> code,
         headers |-> IF message # <<>>
                     THEN MapInsert(headers, "reason", message[1])
                     ELSE headers,
         body |-> IF host # <<>> /\ host[1].file # <<>> THEN host[1].file[1]
                  ELSE hardcoded_error_body(code, message)]

\* the FatResponse: the response and the client cache, server cache and
\* compress preferences
default_error_response(code, host, message) ==
    [response |-> utility_default_error(code, <<host>>, message),
     client_cache_preference |-> "Full",
     server_cache_preference |-> "None",
     compress_preference |-> "Full"]

(***************************************************************************)
(* Specification of process_request: requests for a bound path, for files  *)
(* with and without a directive and a file extension, and for a missing    *)
(* file, served one after the other on one response cache.                 *)
(***************************************************************************)
Uri(stem, extension) ==
    [stem |-> stem, extension |-> extension, forbidden |-> FALSE]

BoundUri == Uri("/api", <<>>)

Uris ==
    {BoundUri, Uri("/a", <<"html">>), Uri("/readme", <<>>),
     Uri("/b", <<"jpg">>), Uri("/missing", <<"html">>),
     [stem |-> "/./a", extension |-> <<>>, forbidden |-> TRUE]}

AcceptEncodings ==
    {<<>>, << <<<<"gzip", 10>>>> >>,
     << <<<<"gzip", 10>>, <<"identity", 0>>>> >>}

ServedRequests ==
    {[method |-> m, uri |-> u, accept_encoding |-> ae] :
        m \in {"GET", "HEAD", "POST"}, u \in Uris, ae \in AcceptEncodings}

\* what the function bound to /api writes to its buffer
BindingOutputs ==
    {[response |-> r, content_type |-> "Html", cached |-> c] :
        r \in {<<"x">>,
               <<StatusLine(200), "Content-Length: ", "1", "\r\n",
                 "Content-Encoding: ", "identity", "\r\n\r\n", "x">>},
        c \in {"Dynamic", "Static"}}

\* what read_file finds at a path
Files(uri) ==
    CASE uri = Uri("/a", <<"html">>) ->
             {<<"x">>, <<"!> ", "tmpl", "\n", "x">>,
              <<"!> ", "other", " ", "a", "\n", "x">>}
      [] uri \in {Uri("/readme", <<>>), Uri("/b", <<"jpg">>)} -> {<<"x", "y">>}
      [] OTHER -> {}

\* the extensions registered by name and by file extension
Registries ==
    {[names |-> n, file_extensions |-> f] :
        n \in {EmptyMap} \cup
              {[name \in {"tmpl"} |-> effect] :
                   effect \in {"none", "type", "length", "vary"}},
        f \in {EmptyMap, [extension \in {"html"} |-> "none"]}}

Environments(uri) ==
    {[close |-> "keep-alive",
      binding |-> IF uri = BoundUri THEN <<b>> ELSE <<>>,
      file |-> IF uri = BoundUri THEN <<>> ELSE file,
      error_file |-> <<>>,
      names |-> registry.names,
      file_extensions |-> registry.file_extensions] :
        b \in BindingOutputs, file \in Optional(Files(uri)),
        registry \in Registries}

\* the variants the response cache holds
CachedVariants(m) ==
    IF DOMAIN m = {} THEN 0
    ELSE LET Count[keys \in SUBSET DOMAIN m] ==
                 IF keys = {} THEN 0
                 ELSE LET key == CHOOSE k \in keys : TRUE
                      IN  Len(m[key].data) + Count[keys \ {key}]
         IN  Count[DOMAIN m]

\* what process_request leaves: the answer, and the variant in the cache
Processed(request, env, done) ==
    /\ out' = [op |-> "process_request", request |-> request, env |-> env,
               done |-> done]
    /\ IF done.store = <<>> THEN UNCHANGED cacheVars
       ELSE /\ CachedVariants(map) < MaxCached
            /\ Cache_add_variant(done.store[1].key, done.store[1].response,
                                 done.store[1].headers,
                                 done.store[1].structure)

Process ==
    /\ out.op = "none"
    /\ Idle
    /\ \E request \in ServedRequests :
       \E env \in Environments(request.uri) :
           Processed(request, env, process_request(map, request, env))
    /\ UNCHANGED <<extVars, fsVars, threadVars, pipeVars, rules, hosts>>

\* an extension answers with a default error
DefaultErrorResponse ==
    /\ out.op = "none"
    /\ \E code \in StatusCodes \ {200},
          file \in Optional({<<"custom page">>}),
          message \in Optional({"no such file"}) :
           out' = [op |-> "default_error_response", code |-> code,
                   fat |-> default_error_response(code, [file |-> file],
                                                  message)]
    /\ UNCHANGED <<cacheVars, extVars, fsVars, threadVars, pipeVars, rules, hosts>>

NextServe == Process \/ DefaultErrorResponse \/ Drop \/ OutDone \/ Clear

SpecServe == Init /\ [][NextServe]_vars

(***************************************************************************)
(* The thread pool (threading.rs) and the event loop of Config::run        *)
(* (lib.rs).  A socket is the number it was accepted as; a Connection is   *)
(* its socket and its closing flag, its token is its key in the worker's   *)
(* map.  The main thread queues jobs, each worker runs the jobs of its     *)
(* channel in order.                                                       *)
(***************************************************************************)
PoolWorkers == 0..(NumWorkers - 1)

\* Config::next_id (the wrap at usize::MAX is beyond every bound)
next_id(id) == id + 1

\* ThreadPool::next_send
next_send(last) == IF last + 1 >= NumWorkers THEN 0 ELSE last + 1

\* HandlerPool::accept: the job goes to the next worker, and the token is
\* entered in the global map under that worker's id
HandlerPool_accept(st, socket, token) ==
    LET thread_id == next_send(st.last_send)
        job == [kind |-> "accept", socket |-> socket, token |-> token]
    IN  [last_send |-> thread_id,
         jobs |-> [st.jobs EXCEPT ![thread_id] = Append(@, job)],
         global_connections |->
             MapInsert(st.global_connections, token, thread_id)]

\* Config::accept: the loop over the n sockets that wait at the listener
RECURSIVE Config_accept(_, _, _, _)
Config_accept(st, socket, n, id) ==
    IF n = 0 THEN st
    ELSE Config_accept(HandlerPool_accept(st, socket, id), socket + 1,
                       n - 1, id)

\* global_connections.remove(&event.raw_token())
GlobalRemove(global, token) == MapRemove(global, token)

\* what one readiness event brings to Connection::ready: whether it is
\* readable and writable, what layer.pull returns, the request that was
\* read ("none": zero bytes), whether the request carries
\* `Connection: close`, and what layer.push returns
Events ==
    {e \in [readable : BOOLEAN, writable : BOOLEAN,
            pull : {"Ok", "CloseRequest", "IO", "TLSError"},
            request : {"none", "too_large", "unparsable", "http10",
                       "http11"},
            close : BOOLEAN, push : {"Ok", "WouldBlock", "Error"}] :
        /\ e.readable \/ e.writable
        /\ (~ e.readable) => e.pull = "Ok" /\ e.request = "none"
        /\ e.pull # "Ok" => e.request = "none"
        /\ e.request = "none" => ~ e.close
        /\ (~ e.writable) => e.push = "Ok"}

\* ConnectionHeader::from_close of the parsed request; a request that was
\* not parsed leaves ConnectionHeader::KeepAlive
CloseOf(event) ==
    event.request \in {"http10", "http11"} /\ event.close

\* the response written into the layer for the request that was read
WrittenFor(request) ==
    CASE request = "none" -> <<>>
      [] request = "too_large" -> <<[by |-> "default_error", code |-> 413]>>
      [] request = "unparsable" -> <<[by |-> "default_error", code |-> 400]>>
      [] request = "http10" -> <<[by |-> "default_error", code |-> 505]>>
      [] request = "http11" -> <<[by |-> "process_request"]>>

\* Connection::ready: self.close() on an error of pull and on an error of
\* push other than WouldBlock; a request with `Connection: close` calls
\* layer.notify_close(), which leaves self.closing as it is
Connection_ready(connection, event) ==
    LET read_failed == event.readable /\ event.pull # "Ok"
        write_failed == event.writable /\ event.push = "Error"
    IN  [connection |->
             [connection EXCEPT
                 !.closing = @ \/ read_failed \/ write_failed],
         written |-> WrittenFor(event.request),
         notify_close |-> CloseOf(event)]

\* the entries of mio's registry without the sockets in gone
Deregister(reg, gone) == [s \in (DOMAIN reg) \ gone |-> reg[s]]

\* the job of HandlerPool::accept run by worker w: inserting under a token
\* the map already holds drops the connection that was there
run_accept(w, job) ==
    LET replaced == IF job.token \in DOMAIN connections[w]
                    THEN {connections[w][job.token].socket} ELSE {}
        connection == [socket |-> job.socket, closing |-> FALSE]
    IN  /\ connections' = [connections EXCEPT
                              ![w] = MapInsert(@, job.token, connection)]
        /\ poll_registry' = MapInsert(Deregister(poll_registry, replaced),
                                      job.socket, job.token)
        /\ out' = [op |-> "accepted", worker |-> w, token |-> job.token,
                   socket |-> job.socket]
        /\ UNCHANGED global_connections

\* the job of HandlerPool::handle run by worker w
run_handle(w, job) ==
    IF job.token \in DOMAIN connections[w]
    THEN \E event \in Events :
           LET done == Connection_ready(connections[w][job.token], event)
               connection == done.connection
           IN  /\ out' = [op |-> "ready", worker |-> w, token |-> job.token,
                          socket |-> connection.socket, event |-> event,
                          written |-> done.written,
                          notify_close |-> done.notify_close]
               /\ IF connection.closing
                  THEN /\ poll_registry' =
                              Deregister(poll_registry, {connection.socket})
                       /\ connections' = [connections EXCEPT
                              ![w] = MapRemove(@, job.token)]
                       /\ global_connections' =
                              GlobalRemove(global_connections, job.token)
                  ELSE UNCHANGED <<poll_registry, connections,
                                   global_connections>>
    ELSE /\ out' = [op |-> "not found", worker |-> w, token |-> job.token]
         /\ UNCHANGED <<poll_registry, connections, global_connections>>

\* Config::run on an event of the listener
ListenerEvent ==
    /\ \E n \in 1..MaxBatch :
         LET id == next_id(con_id)
             st == Config_accept([last_send |-> last_send, jobs |-> jobs,
                                  global_connections |-> global_connections],
                                 sockets + 1, n, id)
         IN  /\ sockets + n <= MaxSockets
             /\ \A w \in PoolWorkers : Len(st.jobs[w]) <= MaxQueue
             /\ con_id' = id
             /\ sockets' = sockets + n
             /\ last_send' = st.last_send
             /\ jobs' = st.jobs
             /\ global_connections' = st.global_connections
             /\ out' = [op |-> "listen", token |-> id, accepted |-> n]
    /\ UNCHANGED <<cacheVars, extVars, fsVars, response_lock, rules, hosts,
                   pending, pipeVars,
                   connections, poll_registry>>

\* Config::run on an event of a registered socket: HandlerPool::handle
SocketEvent ==
    /\ \E socket \in DOMAIN poll_registry :
         LET token == poll_registry[socket]
         IN  IF token \in DOMAIN global_connections
             THEN LET thread_id == global_connections[token]
                  IN  /\ Len(jobs[thread_id]) < MaxQueue
                      /\ jobs' = [jobs EXCEPT ![thread_id] =
                             Append(@, [kind |-> "handle", token |-> token])]
                      /\ out' = [op |-> "event", socket |-> socket,
                                 token |-> token, worker |-> <<thread_id>>]
             ELSE /\ jobs' = jobs
                  /\ out' = [op |-> "event", socket |-> socket,
                             token |-> token, worker |-> <<>>]
    /\ UNCHANGED <<cacheVars, extVars, fsVars, response_lock, rules, hosts,
                   pending, pipeVars,
                   con_id, sockets, last_send, connections,
                   global_connections, poll_registry>>

\* Worker::new: the loop that receives a job and runs it
RunJob ==
    /\ \E w \in PoolWorkers :
         /\ jobs[w] # <<>>
         /\ jobs' = [jobs EXCEPT ![w] = Tail(@)]
         /\ IF Head(jobs[w]).kind = "accept"
            THEN run_accept(w, Head(jobs[w]))
            ELSE run_handle(w, Head(jobs[w]))
    /\ UNCHANGED <<cacheVars, extVars, fsVars, response_lock, rules, hosts,
                   pending, pipeVars,
                   con_id, sockets, last_send>>

NextPool == ListenerEvent \/ SocketEvent \/ RunJob

SpecPool == Init /\ [][NextPool]_vars

(***************************************************************************)
(* The locks of a request (lib.rs).  process_request looks the response up *)
(* in the response cache, reads the file through the file cache, writes    *)
(* the response and caches it; pc[w] is what worker w does next.           *)
(***************************************************************************)
\* the response process_request builds for a path, as the cache knows it
ResponseFor(path) == [len |-> 1]

\* a GET request arrives: process_request of lib.rs starts with its look
\* into the response cache; for utility.rs only the file read is modelled
process_request_begin(w, path, function) ==
    /\ pc[w] = "idle"
    /\ reader \in {"none", function}
    /\ reader' = function
    /\ req' = [req EXCEPT ![w] = path]
    /\ pc' = [pc EXCEPT ![w] = IF function = "read_file"
                               THEN "response_lock" ELSE "lookup"]
    /\ UNCHANGED <<map, response_lock, fs_map, fs_lock, buffer, body, reads>>

\* storage.response_blocking() before lock.resolve
response_blocking(w) ==
    /\ pc[w] = "response_lock"
    /\ response_lock = 0
    /\ response_lock' = w
    /\ pc' = [pc EXCEPT ![w] = "resolve"]
    /\ UNCHANGED <<map, fs_map, fs_lock, req, buffer, body, reads, reader>>

\* lock.resolve(uri, headers): on a hit the response borrows from the guard,
\* which lives until write_as_method has returned; on a miss the guard is
\* dropped at the end of the `if let`
lock_resolve(w) ==
    /\ pc[w] = "resolve"
    /\ response_lock = w
    /\ IF req[w] \in DOMAIN map
       THEN /\ response_lock' = w
            /\ body' = [body EXCEPT ![w] = <<map[req[w]]>>]
            /\ pc' = [pc EXCEPT ![w] = "write_cached"]
       ELSE /\ response_lock' = 0
            /\ body' = body
            /\ pc' = [pc EXCEPT ![w] = "lookup"]
    /\ UNCHANGED <<map, fs_map, fs_lock, req, buffer, reads, reader>>

\* `return response.write_as_method(socket, request.method())` of the hit
write_cached(w) ==
    /\ pc[w] = "write_cached"
    /\ response_lock = w
    /\ response_lock' = 0
    /\ pc' = [pc EXCEPT ![w] = "finished"]
    /\ UNCHANGED <<map, fs_map, fs_lock, req, buffer, body, reads, reader>>

\* read_file has returned; the response is built
respond(w) ==
    /\ reader = "read_file"
    /\ pc[w] = "done"
    /\ pc' = [pc EXCEPT ![w] = "write"]
    /\ UNCHANGED <<map, response_lock, fs_map, fs_lock, req, buffer, body,
                   reads, reader>>

\* response.write_as_method(socket, request.method())? of the miss
write_response(w) ==
    /\ pc[w] = "write"
    /\ pc' = [pc EXCEPT ![w] = "cache_lock"]
    /\ UNCHANGED <<map, response_lock, fs_map, fs_lock, req, buffer, body,
                   reads, reader>>

\* storage.response_blocking() before lock.cache
response_blocking_cache(w) ==
    /\ pc[w] = "cache_lock"
    /\ response_lock = 0
    /\ response_lock' = w
    /\ pc' = [pc EXCEPT ![w] = "add"]
    /\ UNCHANGED <<map, fs_map, fs_lock, req, buffer, body, reads, reader>>

\* lock.cache(uri, CacheType::with_data(response)); the guard is dropped
lock_cache(w) ==
    /\ pc[w] = "add"
    /\ response_lock = w
    /\ \E victim \in Victims(map) :
           map' = CacheInsert(map, req[w], with_data(ResponseFor(req[w])),
                              victim)
    /\ response_lock' = 0
    /\ pc' = [pc EXCEPT ![w] = "finished"]
    /\ UNCHANGED <<fs_map, fs_lock, req, buffer, body, reads, reader>>

Begin ==
    /\ UNCHANGED <<ret, extVars, reqVars, poolVars, pending, pipeVars>>
    /\ \E w \in Workers, path \in Paths,
          function \in {"read_file", "read_file_cached"} :
           process_request_begin(w, path, function)

LookUp ==
    /\ UNCHANGED <<ret, extVars, reqVars, poolVars, pending, pipeVars>>
    /\ \E w \in Workers :
           response_blocking(w) \/ lock_resolve(w) \/ write_cached(w)

Answer ==
    /\ UNCHANGED <<ret, extVars, reqVars, poolVars, pending, pipeVars>>
    /\ \E w \in Workers :
           \/ respond(w)
           \/ write_response(w)
           \/ response_blocking_cache(w)
           \/ lock_cache(w)

NextLocks ==
    \/ Begin
    \/ LookUp
    \/ ReadFileTryLock
    \/ ReadFileCachedLock
    \/ CacheGet
    \/ FileOpen
    \/ ReadFileTryLockStore
    \/ ReadFileCachedLockStore
    \/ CacheStore
    \/ Answer

SpecLocks == Init /\ [][NextLocks]_vars

(***************************************************************************)
(* The reverse proxy (kvarn_extensions/src/reverse-proxy.rs).  The         *)
(* environment of one proxied request says how each step towards the       *)
(* upstream server ends: reading the body of the client's request, the     *)
(* choice of a connection, Connection::establish, the write of the         *)
(* request, the wait for the head of the response, whether more of the     *)
(* body has to be read, and the wait for that rest.                        *)
(***************************************************************************)
ProxyEnvs ==
    [body_read : {"Ok", "Io"}, connection : BOOLEAN,
     establish : {"Ok", "Io"}, write : {"Ok", "Io"},
     head : {"Ok", "Io", "Parse", "Timeout"}, more : BOOLEAN,
     rest : {"Ok", "Io", "Timeout"}]

ProxyHost == [file |-> <<>>]

\* the response of the upstream server with the given body
Upstream(upstream_body) ==
    [response |-> [status |-> 200, headers |-> EmptyMap,
                   body |-> upstream_body],
     client_cache_preference |-> "Full",
     server_cache_preference |-> "Full",
     compress_preference |-> "Full"]

\* EstablishedConnection::request: Err of a GatewayError, or Ok of the
\* response; a rest of the body that does not come in time leaves the
\* body empty
EstablishedConnection_request(env) ==
    IF env.write = "Io" THEN [ok |-> FALSE, err |-> "Io"]
    ELSE IF env.head = "Timeout" THEN [ok |-> FALSE, err |-> "Timeout"]
    ELSE IF env.head # "Ok" THEN [ok |-> FALSE, err |-> env.head]
    ELSE IF ~ env.more THEN [ok |-> TRUE, body |-> <<"head", "rest">>]
    ELSE IF env.rest = "Io" THEN [ok |-> FALSE, err |-> "Io"]
    ELSE IF env.rest = "Timeout" THEN [ok |-> TRUE, body |-> <<>>]
    ELSE [ok |-> TRUE, body |-> <<"head", "rest">>]

\* the status the Prepare extension maps a GatewayError to
GatewayStatus(err) ==
    IF err \in {"Io", "Parse"} THEN 502 ELSE 504

\* the Prepare extension of Manager::mount
Manager_mount(env) ==
    IF env.body_read # "Ok" THEN default_error_response(502, ProxyHost, <<>>)
    ELSE IF ~ env.connection
    THEN default_error_response(400, ProxyHost, <<>>)
    ELSE IF env.establish # "Ok"
    THEN default_error_response(504, ProxyHost, <<>>)
    ELSE LET result == EstablishedConnection_request(env)
         IN  IF result.ok THEN Upstream(result.body)
             ELSE default_error_response(GatewayStatus(result.err),
                                         ProxyHost, <<>>)

\* a request that the `when` of the Manager accepts is handled
ProxyRequest ==
    /\ out.op = "none"
    /\ \E env \in ProxyEnvs :
           out' = [op |-> "proxy", env |-> env, fat |-> Manager_mount(env)]
    /\ UNCHANGED <<cacheVars, extVars, fsVars, threadVars, pipeVars, rules, hosts>>

NextProxy == ProxyRequest \/ OutDone

SpecProxy == Init /\ [][NextProxy]_vars

(***************************************************************************)
(* The directives allow-ips and cache (kvarn_extensions/src/lib.rs) under  *)
(* Extensions::resolve_present, and the requests of several clients for    *)
(* files that carry them.  The response cache maps a path to the response  *)
(* stored for it.                                                          *)
(***************************************************************************)
Addresses == {"1.1.1.1", "2.2.2.2", "3.3.3.3"}

Secret == "secret"

\* the files of the host: a plain one, and files guarded by allow-ips with
\* and without a cache directive before or after it
GuardedFiles ==
    [path \in {"/open", "/ips", "/ips-cache", "/cache-ips", "/two"} |->
        CASE path = "/open" -> <<"x">>
          [] path = "/ips" ->
                 <<"!> ", "allow-ips", " ", "1.1.1.1", "\n", Secret>>
          [] path = "/ips-cache" ->
                 <<"!> ", "allow-ips", " ", "1.1.1.1", " &> ", "cache", " ",
                   "server:full", "\n", Secret>>
          [] path = "/cache-ips" ->
                 <<"!> ", "cache", " ", "server:full", " &> ", "allow-ips",
                   " ", "1.1.1.1", "\n", Secret>>
          [] path = "/two" ->
                 <<"!> ", "allow-ips", " ", "1.1.1.1", " ", "2.2.2.2", " &> ",
                   "cache", " ", "client:full", " ", "server:full", "\n",
                   Secret>>]

\* arg.split(':') of the cache extension: the domain and the preference
SplitColon(arg) ==
    CASE arg = "server:full" -> <<"server", "full">>
      [] arg = "client:full" -> <<"client", "full">>
      [] OTHER -> <<arg>>

\* str::parse of a cache preference
ParsePreference(value) ==
    CASE value = "full" -> <<"Full">>
      [] value = "none" -> <<"None">>
      [] OTHER -> <<>>

\* the loop of the cache extension over its arguments: the last preference
\* given for the domain, None when none is given
RECURSIVE CachePreferenceOf(_, _, _, _)
CachePreferenceOf(args, i, domain, found) ==
    IF i > Len(args) THEN found
    ELSE LET parts == SplitColon(args[i])
             parsed == IF Len(parts) >= 2 /\ parts[1] = domain
                       THEN ParsePreference(parts[2]) ELSE <<>>
         IN  CachePreferenceOf(args, i + 1, domain,
                               IF parsed # <<>> THEN parsed ELSE found)

\* kvarn_extensions::cache
present_cache(data, args) ==
    LET c == CachePreferenceOf(args, 1, "client", <<>>)
        s == CachePreferenceOf(args, 1, "server", <<>>)
    IN  [data EXCEPT
            !.client_cache_preference = IF c # <<>> THEN c[1] ELSE @,
            !.server_cache_preference = IF s # <<>> THEN s[1] ELSE @]

\* kvarn_extensions::ip_allow
ip_allow(data, args) ==
    LET matched == \E i \in 1..Len(args) :
                       args[i] \in Addresses /\ data.address = args[i]
    IN  [data EXCEPT
            !.server_cache_preference = "None",
            !.client_cache_preference = "Changing",
            !.response = IF matched THEN @
                         ELSE utility_default_error(404, <<>>, <<>>)]

\* the present_internal extensions of mount_all that matter here
MountAll == {"cache", "allow-ips"}

\* the loop of resolve_present over the calls
RECURSIVE PresentLoop(_, _, _)
PresentLoop(calls, i, data) ==
    IF i > Len(calls) THEN data
    ELSE PresentLoop(calls, i + 1,
                     IF calls[i].name = "cache"
                     THEN present_cache(data, calls[i].args)
                     ELSE ip_allow(data, calls[i].args))

\* Extensions::resolve_present on the response read from a file
resolve_present_file(content, address) ==
    LET extensions == PresentExtensions_new(content)
        split == IF extensions = <<>> THEN content
                 ELSE SubSeq(content, extensions[1].data_start + 1,
                             Len(content))
    IN  PresentLoop(present_calls(content, <<>>, MountAll, {}), 1,
                    [address |-> address,
                     response |-> [status |-> 200, headers |-> EmptyMap,
                                   body |-> split],
                     client_cache_preference |-> "Full",
                     server_cache_preference |-> "Full"])

\* the driver: the response stored for the path is sent; else the file is
\* read and presented, and the response is stored unless its server cache
\* preference is None
serve(m, path, address) ==
    IF path \in DOMAIN m
    THEN [response |-> m[path], cached |-> TRUE, store |-> <<>>]
    ELSE LET data == resolve_present_file(GuardedFiles[path], address)
         IN  [response |-> data.response, cached |-> FALSE,
              store |-> IF data.server_cache_preference = "None" THEN <<>>
                        ELSE <<data.response>>]

GuardedRequest ==
    /\ out.op = "none"
    /\ \E path \in DOMAIN GuardedFiles, address \in Addresses :
         LET served == serve(map, path, address)
         IN  /\ out' = [op |-> "serve", path |-> path, address |-> address,
                        response |-> served.response,
                        cached |-> served.cached]
             /\ map' = IF served.store = <<>> THEN map
                       ELSE MapInsert(map, path, served.store[1])
    /\ UNCHANGED <<ret, extVars, fsVars, threadVars, pipeVars, rules, hosts>>

\* the response cache is cleared
ClearResponses ==
    /\ out.op = "none"
    /\ map # EmptyMap
    /\ map' = EmptyMap
    /\ UNCHANGED <<ret, extVars, fsVars, threadVars, pipeVars, reqVars>>

NextGuarded == GuardedRequest \/ ClearResponses \/ OutDone

SpecGuarded == Init /\ [][NextGuarded]_vars

(***************************************************************************)
(* Requests served by several workers on the one response cache (lib.rs).  *)
(* A worker looks the response up under the lock, releases it, builds and  *)
(* writes the response, and takes the lock again to store the variant.     *)
(***************************************************************************)
VariantRequests ==
    {[method |-> m, uri |-> Uri("/readme", <<>>), accept_encoding |-> ae] :
        m \in {"GET", "HEAD"}, ae \in AcceptEncodings}

\* the files are there, no function is bound and no extension registered
VariantEnv ==
    [close |-> "keep-alive", binding |-> <<>>, file |-> << <<"x", "y">> >>,
     error_file |-> <<>>, names |-> EmptyMap, file_extensions |-> EmptyMap]

Waiting == {w \in Workers : pending[w] # <<>>}

\* process_request up to `response.write_as_method(socket, ..)`: the
\* variant to store is kept until the worker gets the lock
serve_begin(w, request) ==
    LET done == process_request(map, request, VariantEnv)
    IN  /\ pending' = [pending EXCEPT ![w] = done.store]
        /\ out' = [op |-> "served", worker |-> w, request |-> request,
                   from |-> done.from]

\* `if let Some(mut lock) = storage.response_blocking()` and
\* lock.add_variant(uri, response, headers, &vary[..])
store_variant(w) ==
    /\ Cache_add_variant(pending[w][1].key, pending[w][1].response,
                         pending[w][1].headers, pending[w][1].structure)
    /\ pending' = [pending EXCEPT ![w] = <<>>]
    /\ out' = [op |-> "stored", worker |-> w]

ServeBegin ==
    /\ \E w \in Workers, request \in VariantRequests :
           /\ pending[w] = <<>>
           /\ CachedVariants(map) + Cardinality(Waiting) < MaxVariants
           /\ serve_begin(w, request)
    /\ UNCHANGED <<cacheVars, extVars, fsVars, response_lock, poolVars,
                   pipeVars, rules, hosts>>

StoreVariant ==
    /\ \E w \in Waiting : store_variant(w)
    /\ UNCHANGED <<extVars, fsVars, response_lock, poolVars, pipeVars,
                   rules, hosts>>

NextVariants == ServeBegin \/ StoreVariant \/ Drop \/ Clear

SpecVariants == Init /\ [][NextVariants]_vars

(***************************************************************************)
(* CopyBuffer of the reverse proxy (reverse-proxy.rs, async_bits).  A      *)
(* stream is what arrived on it and was not read yet (input), what was     *)
(* written to it (output), the number of bytes its peer sent and whether   *)
(* the peer closed; the k-th byte a peer sends is the number k.  What a    *)
(* poll of a stream answers is drawn from an oracle: the stream may be     *)
(* pending or fail at any call and may take any part of what it is given.  *)
(***************************************************************************)
Ready(n) == [kind |-> "Ready", n |-> n]
Pending == [kind |-> "Pending", n |-> 0]
IoErr == [kind |-> "Err", n |-> 0]

\* result of poll_copy: Poll<io::Result<bool>>, or the loop going round
\* without a poll
CopyPending == [kind |-> "Pending", done |-> FALSE, error |-> ""]
CopyOk(done) == [kind |-> "Ok", done |-> done, error |-> ""]
CopyErr(error) == [kind |-> "Err", done |-> FALSE, error |-> error]
CopySpin == [kind |-> "Spin", done |-> FALSE, error |-> ""]

\* AsyncRead::poll_read into a ReadBuf of `room` bytes: no byte is filled
\* unless the answer is ready; zero bytes are filled only at the end of
\* the stream
poll_read(stream, room, answer) ==
    LET n == Min({answer.n, Len(stream.input), room})
    IN  IF answer.kind # "Ready"
        THEN [stream |-> stream, filled |-> <<>>, result |-> answer]
        ELSE IF n = 0 /\ (stream.input # <<>> \/ ~ stream.eof)
        THEN [stream |-> stream, filled |-> <<>>, result |-> Pending]
        ELSE [stream |-> [stream EXCEPT
                             !.input = SubSeq(@, n + 1, Len(@))],
              filled |-> SubSeq(stream.input, 1, n),
              result |-> Ready(n)]

\* AsyncWrite::poll_write: the stream takes the first n bytes offered
poll_write(stream, offered, answer) ==
    LET n == Min({answer.n, Len(offered)})
    IN  IF answer.kind # "Ready"
        THEN [stream |-> stream, result |-> answer]
        ELSE [stream |-> [stream EXCEPT
                             !.output = @ \o SubSeq(offered, 1, n)],
              result |-> Ready(n)]

\* AsyncWrite::poll_flush
poll_flush(stream, answer) ==
    IF answer.kind = "Ready" THEN Ready(0) ELSE answer

Polled(call, result) == [call |-> call, result |-> result]

\* `let x = value; Then(x)`: Then of the one element of `value`
Let(value, Then(_)) == CHOOSE r \in {Then(x) : x \in value} : TRUE

\* what one call of poll_copy leaves
Returned(me, rd, wr, result, trace) ==
    [me |-> me, rd |-> rd, wr |-> wr, result |-> result,
     trace |-> trace]

\* `if n == 0 { self.read_done = true } else { self.pos = 0; self.cap = n }`
\* after the reader filled the start of self.buf
Filled(me, filled) ==
    IF filled = <<>>
    THEN [me EXCEPT !.read_done = TRUE]
    ELSE [me EXCEPT !.pos = 0, !.cap = Len(filled),
                    !.buf = [i \in 1..Len(me.buf) |->
                                IF i <= Len(filled) THEN filled[i]
                                ELSE me.buf[i]]]

\* `self.pos += i`
AdvanceToCap(me, i) == [me EXCEPT !.pos = me.cap]
Advance(me, i) == [me EXCEPT !.pos = @ + i]

\* `if self.pos == self.cap && self.read_done`: flush and finish
FlushStage(me, rd, wr, flush, trace) ==
    IF me.pos = me.cap /\ me.read_done
    THEN Returned(me, rd, wr,
                  CASE poll_flush(wr, flush).kind = "Pending" ->
                           CopyPending
                    [] poll_flush(wr, flush).kind = "Err" ->
                           CopyErr("flush")
                    [] OTHER -> CopyOk(TRUE),
                  Append(trace,
                         Polled("poll_flush", poll_flush(wr, flush))))
    ELSE Returned(me, rd, wr, CopySpin, trace)

\* what the loop does with the result of one poll_write
RECURSIVE WriteLoop(_, _, _, _, _, _)
Written(me, rd, write, writes, flush, trace) ==
    CASE write.result.kind = "Pending" ->
             Returned(me, rd, write.stream, CopyPending, trace)
      [] write.result.kind = "Err" ->
             Returned(me, rd, write.stream, CopyErr("write"), trace)
      [] write.result.n = 0 ->
             Returned(me, rd, write.stream, CopyErr("WriteZero"), trace)
      [] Advance(me, write.result.n).pos >= me.cap ->
             Returned(Advance(me, write.result.n), rd, write.stream,
                      CopyOk(FALSE), trace)
      [] OTHER ->
             Let({Advance(me, write.result.n)},
                 LAMBDA moved :
                     WriteLoop(moved, rd, write.stream, writes, flush,
                               trace))

\* `while self.pos < self.cap`
WriteLoop(me, rd, wr, writes, flush, trace) ==
    IF me.pos < me.cap
    THEN Let({poll_write(wr, SubSeq(me.buf, me.pos + 1, me.cap),
                         Head(writes))},
             LAMBDA write :
                 Written(me, rd, write, Tail(writes), flush,
                         Append(trace, Polled("poll_write", write.result))))
    ELSE FlushStage(me, rd, wr, flush, trace)

\* what the loop does with the result of poll_read
HaveRead(me, read, wr, oracle) ==
    CASE read.result.kind = "Pending" ->
             Returned(me, read.stream, wr, CopyPending,
                      << Polled("poll_read", read.result) >>)
      [] read.result.kind = "Err" ->
             Returned(me, read.stream, wr, CopyErr("read"),
                      << Polled("poll_read", read.result) >>)
      [] OTHER ->
             Let({Filled(me, read.filled)},
                 LAMBDA filled :
                     WriteLoop(filled, read.stream, wr, oracle.writes,
                               oracle.flush,
                               << Polled("poll_read", read.result) >>))

\* CopyBuffer::poll_copy: one pass of its loop; every pass returns while
\* pos <= cap
poll_copy(me, rd, wr, oracle) ==
    IF me.pos = me.cap /\ ~ me.read_done
    THEN Let({poll_read(rd, Len(me.buf), oracle.read)},
             LAMBDA read : HaveRead(me, read, wr, oracle))
    ELSE WriteLoop(me, rd, wr, oracle.writes, oracle.flush, <<>>)

\* the answers a reader may give to a call: none is asked for while the
\* buffer holds bytes or the end was seen
ReadAnswers(me) ==
    IF me.pos = me.cap /\ ~ me.read_done
    THEN {Pending, IoErr} \cup {Ready(n) : n \in 1..Len(me.buf)}
    ELSE {Pending}

\* the number of bytes in the buffer when the write loop of a call starts
Buffered(me, rd, read) ==
    IF me.pos = me.cap /\ ~ me.read_done
    THEN Len(poll_read(rd, Len(me.buf), read).filled)
    ELSE me.cap - me.pos

\* the answers a writer may give while m bytes are left to write: it takes
\* a part of them and is asked again, or gives the answer that ends the call
RECURSIVE WriteAnswers(_)
WriteAnswers(m) ==
    IF m = 0 THEN {<<>>}
    ELSE {<<answer>> : answer \in {Pending, IoErr, Ready(0), Ready(m)}}
         \cup UNION {{<<Ready(n)>> \o rest : rest \in WriteAnswers(m - n)} :
                        n \in 1..(m - 1)}

FlushAnswers == {Pending, IoErr, Ready(0)}

\* the answers of the streams during one call
Oracles(me, rd) ==
    UNION {[read : {read}, writes : WriteAnswers(Buffered(me, rd, read)),
            flush : FlushAnswers] : read \in ReadAnswers(me)}

\* the peer of the front stream sends its next byte, or closes
FrontSends ==
    /\ ~ front.eof
    /\ \/ /\ front.sent < MaxStream
          /\ front' = [front EXCEPT !.sent = @ + 1,
                                    !.input = Append(@, front.sent + 1)]
       \/ front' = [front EXCEPT !.eof = TRUE]
    /\ out' = [op |-> "sent"]
    /\ UNCHANGED <<cacheVars, extVars, fsVars, threadVars, rules, hosts,
                   back, front_buf, back_buf, open_back>>

\* one poll of the copy from the front stream to the back stream
PollCopy ==
    /\ \E oracle \in Oracles(back_buf, front) :
           LET done == poll_copy(back_buf, front, back, oracle)
           IN  /\ back_buf' = done.me
               /\ front' = done.rd
               /\ back' = done.wr
               /\ out' = [op |-> "poll_copy", result |-> done.result,
                          trace |-> done.trace]
    /\ UNCHANGED <<cacheVars, extVars, fsVars, threadVars, rules, hosts,
                   front_buf, open_back>>

NextCopy == FrontSends \/ PollCopy

SpecCopy == Init /\ [][NextCopy]_vars

(***************************************************************************)
(* ByteProxy::poll_channel and the loop of Manager::mount that awaits      *)
(* ByteProxy::channel (reverse-proxy.rs).  Here the streams answer as soon *)
(* as they can: a read gives what has arrived, a write takes what the peer *)
(* has room for, nothing fails.  The upstream server never closes and may  *)
(* always send more (its bytes are all 0 and are not counted); the client  *)
(* holds at most MaxUnread bytes it has not taken yet.                     *)
(***************************************************************************)
ChannelPending == [kind |-> "Pending", error |-> ""]
ChannelOk == [kind |-> "Ok", error |-> ""]
ChannelErr(error) == [kind |-> "Err", error |-> error]

\* the answers of streams that are ready whenever they can be, the writer
\* having room for `room` bytes
Prompt(room) ==
    [read |-> Ready(BufLen),
     writes |-> IF room = 0 THEN <<Pending>>
                ELSE [i \in 1..(BufLen + 1) |->
                         IF i = 1 THEN Ready(room) ELSE Pending],
     flush |-> Ready(0)]

\* the macro copy_from_to!: what poll_channel returns after this copy,
\* <<>> when it goes on to what follows
copy_from_to(copied, error) ==
    CASE copied.result.kind = "Err" -> << ChannelErr(error) >>
      [] copied.result.kind = "Ok" ->
             IF copied.result.done THEN << ChannelErr("Closed") >>
             ELSE << ChannelOk >>
      [] OTHER -> <<>>

Channelled(f, b, fb, bb, result) ==
    [front |-> f, back |-> b, front_buf |-> fb, back_buf |-> bb,
     result |-> result]

\* copy_from_to!(self.front, OpenBackError::Front, self.back_buf, self.back)
\* and `Poll::Pending`
FrontToBack(first, second) ==
    Channelled(second.rd, second.wr, first.me, second.me,
               IF copy_from_to(second, "Front") # <<>>
               THEN copy_from_to(second, "Front")[1]
               ELSE ChannelPending)

\* copy_from_to!(self.back, OpenBackError::Back, self.front_buf, self.front)
BackToFront(first, bb, to_back) ==
    IF copy_from_to(first, "Back") # <<>>
    THEN Channelled(first.wr, first.rd, first.me, bb,
                    copy_from_to(first, "Back")[1])
    ELSE Let({poll_copy(bb, first.wr, first.rd, to_back)},
             LAMBDA second : FrontToBack(first, second))

\* ByteProxy::poll_channel; to_front and to_back are the answers of the
\* streams to the two copies
poll_channel(f, b, fb, bb, to_front, to_back) ==
    Let({poll_copy(fb, b, f, to_front)},
        LAMBDA first : BackToFront(first, bb, to_back))

\* the upstream server sends a byte
BackSends ==
    /\ Len(back.input) < MaxUnread
    /\ back' = [back EXCEPT !.input = Append(@, 0)]
    /\ out' = [op |-> "back_sent"]
    /\ UNCHANGED <<cacheVars, extVars, fsVars, threadVars, rules, hosts,
                   front, front_buf, back_buf, open_back>>

\* the client takes a byte that was written to it
FrontPeerReads ==
    /\ front.output # <<>>
    /\ front' = [front EXCEPT !.output = Tail(@)]
    /\ out' = [op |-> "front_read"]
    /\ UNCHANGED <<cacheVars, extVars, fsVars, threadVars, rules, hosts,
                   back, front_buf, back_buf, open_back>>

\* one poll of open_back.channel() in the loop of Manager::mount:
\* `Ok(()) => continue`, `Err(err) => break`
PollChannel ==
    /\ open_back = "channel"
    /\ \E done \in {poll_channel(front, back, front_buf, back_buf,
                                  Prompt(MaxUnread - Len(front.output)),
                                  Prompt(BufLen))} :
           /\ front' = done.front
           /\ back' = done.back
           /\ front_buf' = done.front_buf
           /\ back_buf' = done.back_buf
           /\ open_back' = IF done.result.kind = "Err" THEN "broke"
                           ELSE "channel"
           /\ out' = [op |-> "poll_channel", result |-> done.result]
    /\ UNCHANGED <<cacheVars, extVars, fsVars, threadVars, rules, hosts>>

NextChannel == FrontSends \/ BackSends \/ FrontPeerReads \/ PollChannel

SpecChannel == Init /\ [][NextChannel]_vars

\* the task that awaits the channel is polled while a poll can do
\* something, and the client keeps taking what is written to it
FairChannel ==
    SpecChannel /\ WF_vars(PollChannel) /\ WF_vars(FrontPeerReads)

(***************************************************************************)
(* Properties of the cache (SpecCache).                                    *)
(***************************************************************************)

\* C1: after any sequence of cache, add_variant, remove and clear the map
\* holds at most max_items entries and no value whose size (a Vary entry:
\* the sum of its variants' sizes) exceeds size_limit.
C1_CacheWithinLimits ==
    /\ Cardinality(DOMAIN map) <= max_items
    /\ \A key \in DOMAIN map : Size(map[key]) <= size_limit

\* C2: cache(key, value) with size(value) > size_limit returns Err carrying
\* that value and leaves the map as it was, a full map included.
C2_OversizedRejected ==
    [][\A key \in Keys, response \in ByteResponses :
         (/\ ret'.op = "cache"
          /\ Size(with_data(response)) > size_limit
          /\ cache(key, with_data(response)))
         => (/\ map' = map
             /\ ~ ret'.ok
             /\ ret'.val = <<with_data(response)>>)]_vars

C2_Witness ==
    /\ ret.op = "cache"
    /\ ~ ret.ok
    /\ Size(ret.val[1]) > size_limit
    /\ Cardinality(DOMAIN map) = max_items

\* what C3 says add_variant does, whatever the size of the response
AddVariantAsClaimed(key, response, headers, structure) ==
    IF key \notin DOMAIN map
    THEN /\ ret'.ok
         /\ key \in DOMAIN map'
         /\ map'[key] = vary_with_data(structure, response, headers)
    ELSE IF map[key].type = "Vary" /\ map[key].vary_headers = structure
    THEN /\ ret'.ok
         /\ map' = [map EXCEPT ![key].data =
                        Append(@, [headers |-> headers, response |-> response])]
    ELSE /\ ~ ret'.ok
         /\ map' = map

\* C3 as claimed: add_variant creates the Vary entry with that one variant
\* when the key is unmapped, appends to a Vary entry of equal structure, and
\* otherwise returns Err leaving the cache unchanged.
C3_AddVariantAsClaimed ==
    [][ret'.op = "add_variant" =>
          AddVariantAsClaimed(ret'.args[1], ret'.args[2], ret'.args[3],
                              ret'.args[4])]_vars

\* C3 amended: a response larger than size_limit is rejected (Err, cache
\* unchanged) in all three cases; a response within size_limit is handled
\* as claimed.
C3_AddVariant ==
    [][ret'.op = "add_variant" =>
          IF ret'.args[2].len > size_limit
          THEN ~ ret'.ok /\ map' = map
          ELSE AddVariantAsClaimed(ret'.args[1], ret'.args[2], ret'.args[3],
                                   ret'.args[4])]_vars

C3_Witness ==
    /\ ret.op = "add_variant"
    /\ ret.ok
    /\ \E key \in DOMAIN map :
        /\ map[key].type = "Vary"
        /\ Len(map[key].data) = 2
        /\ Cardinality(DOMAIN map) = max_items

(***************************************************************************)
(* Properties of resolve (SpecResolve).                                    *)
(***************************************************************************)
AllPositions(vary) == 1..Len(vary.data)
Axes(vary) == 1..Len(vary.vary_headers)

\* the variants that pass the filter of the section on resolution on the
\* axis at `position`: the header parsed, identity added for
\* accept-encoding, a match with any token or a `*` token
SurvivesAxis(vary, headers, position) ==
    {i \in AllPositions(vary) :
        Matches(vary.data[i], position,
                FirstRequired(headers, vary.vary_headers[position]))}

SurvivesEveryAxis(vary, headers) ==
    {i \in AllPositions(vary) :
        \A position \in Axes(vary) : i \in SurvivesAxis(vary, headers, position)}

Resolved == ret.op = "resolve" /\ ret.key \in DOMAIN map
ResolvedVary == Resolved /\ map[ret.key].type = "Vary"

\* C4: resolve returns the earliest-inserted variant that survives the
\* filter on every axis of vary_headers, None when none survives or the
\* key is unmapped, and the stored response of a Data entry (stated for
\* requests that carry every header the entry varies on).
C4_ResolveFiltersEveryAxis ==
    ret.op = "resolve" =>
        IF ret.key \notin DOMAIN map THEN ret.val = <<>>
        ELSE IF map[ret.key].type = "Data" THEN ret.val = <<map[ret.key].data>>
        ELSE LET vary == map[ret.key]
                 survivors == SurvivesEveryAxis(vary, ret.headers)
             IN  (\A position \in Axes(vary) :
                    HeaderGet(ret.headers, vary.vary_headers[position]) # <<>>)
                 => /\ ret.idx = IF survivors = {} THEN 0 ELSE Min(survivors)
                    /\ ret.val = IF survivors = {} THEN <<>>
                                 ELSE <<vary.data[Min(survivors)].response>>

AbsentAxes(vary, headers) ==
    {position \in Axes(vary) :
        HeaderGet(headers, vary.vary_headers[position]) = <<>>}

\* C5 as claimed: a request with none of the vary headers gets the
\* first-inserted variant whatever its stored values are.
C5_NoHeadersFirstVariant ==
    (ResolvedVary /\ AbsentAxes(map[ret.key], ret.headers) = Axes(map[ret.key]))
        => ret.idx = 1

IdentityPositions(vary) ==
    {i \in AllPositions(vary) : vary.data[i].headers[1] = "identity"}

\* C5 amended: an axis whose header the request lacks keeps all variants,
\* except a first axis named accept-encoding, where the absent header
\* counts as `identity` and only variants stored as identity are kept; a
\* request with none of the vary headers gets the first-inserted variant,
\* or the first identity variant (None without one) when the first axis is
\* accept-encoding.
C5_AbsentHeader ==
    ResolvedVary =>
        LET vary == map[ret.key]
            absent == AbsentAxes(vary, ret.headers)
            encodingFirst ==
                ToAsciiLowercase(vary.vary_headers[1]) = "accept-encoding"
        IN  /\ (1 \in absent /\ ~ encodingFirst)
                    => FirstAxisResults(vary, ret.headers) = AllPositions(vary)
            /\ (1 \in absent /\ encodingFirst)
                    => FirstAxisResults(vary, ret.headers) = IdentityPositions(vary)
            /\ \A position \in absent \ {1} :
                    \A results \in SUBSET AllPositions(vary) :
                        Retain(vary, ret.headers, position, results) = results
            /\ absent = Axes(vary)
                    => ret.idx = IF ~ encodingFirst THEN 1
                                 ELSE IF IdentityPositions(vary) = {} THEN 0
                                 ELSE Min(IdentityPositions(vary))

C5_Witness ==
    /\ ResolvedVary
    /\ AbsentAxes(map[ret.key], ret.headers) = Axes(map[ret.key])
    /\ ToAsciiLowercase(map[ret.key].vary_headers[1]) = "accept-encoding"
    /\ Len(map[ret.key].vary_headers) = 2
    /\ map[ret.key].data[1].headers[1] = "gzip"
    /\ ret.idx = 2

(***************************************************************************)
(* Properties of the file reads (SpecFs).                                  *)
(***************************************************************************)
Requesters(path) == {w \in Workers : req[w] = path}

\* C6: when two requests for one file, started with cold caches, have both
\* been served, the file was opened and read exactly once and the two
\* bodies are the same.
C6_SingleFlight ==
    \A path \in Paths :
        \A w1, w2 \in Workers :
            (/\ w1 # w2
             /\ Requesters(path) = {w1, w2}
             /\ pc[w1] = "done"
             /\ pc[w2] = "done")
                => reads[path] = 1 /\ body[w1] = body[w2]

(***************************************************************************)
(* Properties of the extension registry (SpecExt).                         *)
(***************************************************************************)
SortedCollections == {"prime", "prepare_fn", "package", "post"}

ListOf(c) ==
    CASE c = "prime" -> prime
      [] c = "prepare_fn" -> prepare_fn
      [] c = "package" -> package
      [] c = "post" -> post

AddTo(c, id) ==
    CASE c = "prime" -> add_prime(id)
      [] c = "prepare_fn" -> add_prepare_fn(id)
      [] c = "package" -> add_package(id)
      [] c = "post" -> add_post(id)

StrictlyDescending(priorities) ==
    \A i \in 1..(Len(priorities) - 1) : priorities[i] > priorities[i + 1]

StoredPriorities(list) == [i \in 1..Len(list) |-> list[i].id.priority]

\* the priorities the list stores the extensions exts under
IndexOf(list, ext) == CHOOSE i \in 1..Len(list) : list[i].ext = ext

RunPriorities(list, exts) ==
    [i \in 1..Len(exts) |-> list[IndexOf(list, exts[i])].id.priority]

CalledExts == [i \in 1..Len(run.calls) |-> run.calls[i].ext]

IsPrefix(s, t) == Len(s) <= Len(t) /\ s = SubSeq(t, 1, Len(s))

\* C7: after any sequence of add_prime, add_prepare_fn, add_package and
\* add_post every list is in strictly descending priority order, and a
\* resolve_* call goes through the handlers of its list in that order
\* (resolve_prepare: up to the first whose predicate holds).
C7_DescendingPriority ==
    /\ \A c \in SortedCollections :
           StrictlyDescending(StoredPriorities(ListOf(c)))
    /\ run.phase = "prime" =>
           /\ \A i \in 1..Len(prime) : CalledExts[i] = prime[i].ext
           /\ Len(run.calls) = Len(prime)
           /\ StrictlyDescending(RunPriorities(prime, CalledExts))
    /\ run.phase = "package" =>
           /\ Len(run.calls) = Len(package)
           /\ \A i \in 1..Len(package) : run.calls[i] = package[i].ext
           /\ StrictlyDescending(RunPriorities(package, run.calls))
    /\ run.phase = "post" =>
           /\ Len(run.calls) = Len(post)
           /\ \A i \in 1..Len(post) : run.calls[i] = post[i].ext
           /\ StrictlyDescending(RunPriorities(post, run.calls))
    /\ run.phase = "prepare" =>
           /\ IsPrefix(run.calls, Exts(prepare_fn))
           /\ StrictlyDescending(RunPriorities(prepare_fn, run.calls))
           /\ (run.response # <<>> /\ run.calls # <<>>) =>
                  run.response[1] = run.calls[Len(run.calls)]

\* the handler registered second has the higher priority and is called first
C7_Witness ==
    /\ run.phase = "package"
    /\ Len(run.calls) >= 2
    /\ run.calls[1].n > run.calls[2].n
    /\ run.calls[1].asked > run.calls[2].asked

Taken(list, priority) ==
    \E i \in 1..Len(list) : list[i].id.priority = priority

PositionOf(list, priority) ==
    CHOOSE i \in 1..Len(list) : list[i].id.priority = priority

ExtSet(list) == {list[i].ext : i \in 1..Len(list)}

SetMax(S) == CHOOSE x \in S : \A y \in S : y <= x

RemoveAt(list, i) == SubSeq(list, 1, i - 1) \o SubSeq(list, i + 1, Len(list))

\* C9: a registration with no_override replaces and removes nothing: the
\* handler is stored under the highest free priority not above the asked
\* one and the list grows by one; when every priority from the asked one
\* down to the minimum is taken the registration panics, the list as it was.
C9_NoOverride ==
    [][\A c \in SortedCollections :
          nreg'[c] = nreg[c] + 1 => \A p \in Priorities :
          AddTo(c, no_override(IdNew(p))) =>
              LET list == ListOf(c)
                  free == {q \in I32_MIN..p : ~ Taken(list, q)}
              IN  IF free = {}
                  THEN panicked' /\ ListOf(c)' = list
                  ELSE /\ ~ panicked'
                       /\ Len(ListOf(c)') = Len(list) + 1
                       /\ \E i \in 1..(Len(list) + 1) :
                              /\ ListOf(c)'[i].id.priority = SetMax(free)
                              /\ ListOf(c)'[i].ext = NewExt(c, IdNew(p))
                              /\ RemoveAt(ListOf(c)', i) = list]_vars

\* one handler sits below the priority it asked for, and a later
\* registration found every priority down to the minimum taken
C9_Witness ==
    /\ panicked
    /\ \E c \in SortedCollections :
           \E i \in 1..Len(ListOf(c)) :
               /\ ListOf(c)[i].id.no_override
               /\ ListOf(c)[i].ext.asked > ListOf(c)[i].id.priority

IsSentinel(returned) == returned # <<>> /\ StartsWith(returned[1], Sentinel)

\* C10 as claimed: whatever URI a prime handler returns is the URI of the
\* request the next (lower priority) prime handler is called with.
C10_ReturnedUriApplied ==
    run.phase = "prime" =>
        \A i \in 1..(Len(run.calls) - 1) :
            run.calls[i].returned # <<>> =>
                run.calls[i + 1].saw = run.calls[i].returned[1]

\* the sentinel URIs returned up to call i, in call order
RECURSIVE SentinelsReturned(_, _)
SentinelsReturned(calls, i) ==
    IF i = 0 THEN <<>>
    ELSE SentinelsReturned(calls, i - 1)
             \o (IF IsSentinel(calls[i].returned)
                 THEN <<calls[i].returned[1]>> ELSE <<>>)

\* C10 amended: a returned URI whose path does not start with "/./" is the
\* URI of the request the next prime handler is called with; one whose path
\* does leaves the request as it was and is what resolve_prime returns (the
\* last such one, if several).
C10_PrimeUriApplied ==
    run.phase = "prime" =>
        /\ \A i \in 1..(Len(run.calls) - 1) :
               run.calls[i + 1].saw =
                   IF run.calls[i].returned # <<>>
                          /\ ~ IsSentinel(run.calls[i].returned)
                   THEN run.calls[i].returned[1]
                   ELSE run.calls[i].saw
        /\ LET sentinels == SentinelsReturned(run.calls, Len(run.calls))
           IN  run.uri = IF sentinels = <<>> THEN <<>>
                         ELSE <<sentinels[Len(sentinels)]>>

\* the first handler rewrote the URI, the second was called with the new URI
C10_Witness ==
    /\ run.phase = "prime"
    /\ Len(run.calls) >= 2
    /\ run.calls[1].returned = <<PlainPath>>
    /\ run.calls[2].saw = PlainPath
    /\ run.calls[2].saw # RequestPath
    /\ prime[1].id.priority > prime[2].id.priority

(***************************************************************************)
(* Properties of CORS (SpecCors, SpecCorsRules).                           *)
(***************************************************************************)
Denied(request) == check_cors_request(rules, request) = <<>>

\* C11: with a Cors ruleset installed through add_cors, every request
\* classified as denied, an OPTIONS request carrying Origin and
\* Access-Control-Request-Method included, is routed to the /./cors_fail
\* handler and answered 403 with the body "CORS request denied".
C11_DeniedAnswered403 ==
    (/\ out.op = "handle"
     /\ ~ RejectsRaw(out.request.uri.path)
     /\ Denied(out.request))
        => /\ out.response.handler = <<"cors_fail">>
           /\ out.response.status = 403
           /\ out.response.body = "CORS request denied"

SameAsUri(origin, uri) ==
    LET parsed == UriTryFrom(origin)
    IN  /\ parsed # <<>>
        /\ parsed[1].scheme # <<>>
        /\ parsed[1].scheme = uri.scheme
        /\ UriHost(parsed[1]) = UriHost(uri)
        /\ UriPort(parsed[1]) = UriPort(uri)

\* C14: check_cors_request returns the same-origin allowance (GET, HEAD,
\* OPTIONS and no headers) for every request that has no Origin header or
\* whose Origin has the scheme, host and port of the request URI, whatever
\* rules the ruleset holds.
C14_SameOriginWhateverRules ==
    (/\ out.op = "check"
     /\ \/ out.request.origin = <<>>
        \/ SameAsUri(out.request.origin[1], out.request.uri))
        => out.allowed = << [methods |-> <<"GET", "HEAD", "OPTIONS">>,
                             headers |-> <<>>] >>

CrossOrigin(request) ==
    /\ request.origin # <<>>
    /\ ~ is_part_of_origin(request.origin[1], request.uri)

MatchingRules(path) ==
    {i \in 1..Len(rules) :
        \/ rules[i].path = path
        \/ /\ rules[i].path[Len(rules[i].path)] = "*"
           /\ IsPrefix(SubSeq(rules[i].path, 1, Len(rules[i].path) - 1),
                       path)}

Admits(list, origin) ==
    \/ list.allow_all_origins
    \/ \E i \in 1..Len(list.allowed) :
           /\ list.allowed[i].scheme = UriTryFrom(origin)[1].scheme
           /\ UriHost(list.allowed[i]) = UriHost(UriTryFrom(origin)[1])
           /\ UriPort(list.allowed[i]) = UriPort(UriTryFrom(origin)[1])

FirstRuleAdmits(request) ==
    /\ MatchingRules(request.uri.path) # {}
    /\ Admits(rules[Min(MatchingRules(request.uri.path))].allow,
              request.origin[1])

FirstRuleGrant(request) ==
    LET list == rules[Min(MatchingRules(request.uri.path))].allow
    IN  << [methods |-> list.methods, headers |-> list.headers] >>

IsStar(rule) == rule.path[Len(rule.path)] = "*"

\* a goes strictly before b: exact before star, then the longer pattern
GoesBefore(a, b) ==
    \/ ~ IsStar(a) /\ IsStar(b)
    \/ IsStar(a) = IsStar(b) /\ Len(a.path) > Len(b.path)

\* the rule a ruleset applies to a path, 0 if none
AppliedRule(list, path) == FirstMatch(list, path, 1)

ExactRules(list, path) ==
    {i \in 1..Len(list) : ~ IsStar(list[i]) /\ list[i].path = path}

PrefixRules(list, path) ==
    {i \in 1..Len(list) :
        /\ IsStar(list[i])
        /\ IsPrefix(SubSeq(list[i].path, 1, Len(list[i].path) - 1), path)}

AppliedAsClaimed(list, path) ==
    LET i == AppliedRule(list, path)
    IN  IF ExactRules(list, path) # {} THEN i \in ExactRules(list, path)
        ELSE IF PrefixRules(list, path) # {}
        THEN /\ i \in PrefixRules(list, path)
             /\ \A j \in PrefixRules(list, path) :
                    Len(list[j].path) <= Len(list[i].path)
        ELSE i = 0

\* C16: after every Cors::allow the rules are ordered with exact patterns
\* before patterns ending in *, within each group by decreasing length, the
\* new rule after the rules that are its equals and the older rules in the
\* order they had; the rule applied to a path is an exact match if there is
\* one and otherwise a longest matching prefix pattern.
C16_RulesOrdered ==
    [][Len(rules') = Len(rules) + 1 =>
          /\ \A i, j \in 1..Len(rules') :
                 i < j => ~ GoesBefore(rules'[j], rules'[i])
          /\ \E k \in 1..Len(rules') :
                 /\ rules = RemoveAt(rules', k)
                 /\ \A j \in (k + 1)..Len(rules') :
                        GoesBefore(rules'[k], rules'[j])
          /\ \A path \in RequestPaths \cup RulePaths :
                 AppliedAsClaimed(rules', path)]_vars

\* two exact rules of one length in the order they were added, then a longer
\* and a shorter prefix rule
C16_Witness ==
    /\ Len(rules) = 3
    /\ rules[1].path = <<"/", "b">>
    /\ rules[2].path = <<"/", "a">>
    /\ rules[3].path = <<"/", "*">>

\* items separated by ", "
Listing(items) ==
    [i \in 1..(IF items = <<>> THEN 0 ELSE 2 * Len(items) - 1) |->
        IF i % 2 = 1 THEN items[(i + 1) \div 2] ELSE ", "]

\* C17: an OPTIONS request with Origin and Access-Control-Request-Method
\* that a rule of the ruleset allows is answered by the /./cors_options
\* handler with 204 and with Access-Control-Allow-Methods and
\* Access-Control-Allow-Headers listing the methods and the headers of the
\* matching rule, in the rule's order, separated by ", ".
C17_PreflightListsRule ==
    (/\ out.op = "handle"
     /\ ~ RejectsRaw(out.request.uri.path)
     /\ out.request.method = "OPTIONS"
     /\ out.request.acrm
     /\ CrossOrigin(out.request)
     /\ ~ Denied(out.request))
        => LET rule == rules[Min(MatchingRules(out.request.uri.path))]
               headers == out.response.headers
           IN  /\ out.response.handler = <<"cors_options">>
               /\ out.response.status = 204
               /\ "access-control-allow-methods" \in DOMAIN headers
               /\ "access-control-allow-headers" \in DOMAIN headers
               /\ headers["access-control-allow-methods"]
                      = Listing(rule.allow.methods)
               /\ headers["access-control-allow-headers"]
                      = Listing(rule.allow.headers)

(***************************************************************************)
(* Properties of the present step (SpecPresent).                           *)
(***************************************************************************)
\* C13: if the body produced for a request starts with the prefix "!> ",
\* then after the present hooks the body does not start with it; the
\* directive line is removed from the body, and only from the body (the
\* head is left as it was), before any present handler observes it.
C13_DirectiveStripped ==
    (/\ out.op = "present"
     /\ out.body[1] = "!> ")
        => LET n == Find(out.body, "\n", 1)
               rest == SubSeq(out.body, n + 1, Len(out.body))
           IN  /\ out.present.body = rest
               /\ rest[1] # "!> "
               /\ out.present.head = out.head
               /\ \A i \in 1..Len(out.present.seen) :
                      /\ out.present.seen[i].body = rest
                      /\ out.present.seen[i].head = out.head

(***************************************************************************)
(* Properties of the host multiplexer (SpecHosts).                         *)
(***************************************************************************)
Names(maybe_host) ==
    maybe_host # <<>> /\ maybe_host[1] \in DOMAIN hosts.by_name

\* C18 as claimed: smart_get returns the host registered under the SNI
\* hostname when one is supplied, otherwise the host registered under the
\* Host header value; the default host is returned only when neither the
\* SNI hostname nor the Host header is present or names a registered host.
C18_DefaultOnlyIfNeitherNames ==
    out.op = "smart_get" =>
        /\ Names(out.sni_hostname)
               => out.got = [slot |-> "by_name",
                             host |-> hosts.by_name[out.sni_hostname[1]]]
        /\ (out.sni_hostname = <<>> /\ Names(out.header))
               => out.got = [slot |-> "by_name",
                             host |-> hosts.by_name[out.header[1]]]
        /\ out.got.slot = "default"
               => ~ Names(out.sni_hostname) /\ ~ Names(out.header)

\* C18: smart_get looks up one name, the SNI hostname when one is supplied
\* and the Host header value otherwise; it returns the host registered
\* under that name, and the default host when that name is not registered
\* or there is no name.  The Host header is not consulted when an SNI
\* hostname is supplied.
C18_OneNameDecides ==
    out.op = "smart_get" =>
        LET name == IF out.sni_hostname # <<>> THEN out.sni_hostname
                    ELSE out.header
        IN  out.got = IF Names(name)
                      THEN [slot |-> "by_name",
                            host |-> hosts.by_name[name[1]]]
                      ELSE [slot |-> "default", host |-> hosts.default[1]]

\* an SNI hostname that is not registered, a Host header that is
C18_Witness ==
    /\ out.op = "smart_get"
    /\ out.sni_hostname # <<>>
    /\ ~ Names(out.sni_hostname)
    /\ Names(out.header)
    /\ out.got.slot = "default"

\* C19: certificate resolution returns the certificate of the host
\* registered under the SNI name; the default host's certificate when the
\* SNI name is absent or names no registered host; and no certificate for a
\* registered host that has none, never the default host's.
C19_CertificateOfNamedHost ==
    out.op = "resolve" =>
        /\ Names(out.server_name)
               => out.certificate
                      = hosts.by_name[out.server_name[1]].certificate
        /\ ~ Names(out.server_name)
               => out.certificate = hosts.default[1].certificate
        /\ (/\ Names(out.server_name)
            /\ hosts.by_name[out.server_name[1]].certificate = <<>>)
               => out.certificate = <<>>

C19_Witness ==
    /\ out.op = "resolve"
    /\ Names(out.server_name)
    /\ hosts.by_name[out.server_name[1]].certificate = <<>>
    /\ hosts.default[1].certificate # <<>>
    /\ out.certificate = <<>>

(***************************************************************************)
(* Properties of the choice of the content encoding (SpecCompress).        *)
(***************************************************************************)
Prohibits(header, encoding) ==
    \E i \in 1..Len(header) :
        /\ header[i][2] = 0
        /\ header[i][1] = encoding \/ (header[i][1] = "GZIP" /\ encoding = "gzip")

\* C20: for a compressible content type, the encoding chosen from an
\* Accept-Encoding header is the first of br, gzip, identity that the header
\* does not prohibit with q=0; an encoding whose token carries q=0 is never
\* chosen.
C20_FirstNotProhibited ==
    (/\ out.op = "compress"
     /\ out.header # <<>>
     /\ ~ out.compressed)
        => LET allowed == {i \in 1..3 :
                              ~ Prohibits(out.header[1],
                                          <<"br", "gzip", "identity">>[i])}
           IN  /\ ~ Prohibits(out.header[1], out.chosen.algorithm)
               /\ allowed # {}
                      => out.chosen.algorithm
                             = <<"br", "gzip", "identity">>[Min(allowed)]

Allows(header, encoding) ==
    \E i \in 1..Len(header) :
        /\ header[i][2] > 0
        /\ header[i][1] = encoding \/ (header[i][1] = "GZIP" /\ encoding = "gzip")

\* C21: for a content type of an already compressed family the response
\* uses identity unless the header prohibits identity; when identity is
\* prohibited it uses an encoding the client still allows, and 406 is
\* returned only when the header allows no encoding.
C21_IdentityElseAllowed ==
    (/\ out.op = "compress"
     /\ out.header # <<>>
     /\ out.compressed)
        => /\ ~ Prohibits(out.header[1], "identity")
                  => out.chosen = [algorithm |-> "identity", error |-> <<>>]
           /\ out.chosen.error # <<>>
                  => /\ Prohibits(out.header[1], "identity")
                     /\ \A encoding \in {"br", "gzip"} :
                            ~ Allows(out.header[1], encoding)
           /\ (Prohibits(out.header[1], "identity") /\ out.chosen.error = <<>>)
                  => ~ Prohibits(out.header[1], out.chosen.algorithm)

(***************************************************************************)
(* Properties of process_request (SpecServe).                              *)
(***************************************************************************)
\* the head and the body of what was written to the socket
WrittenHead(written) == SubSeq(written, 1, get_start(written))
WrittenBody(written) == SubSeq(written, get_start(written) + 1, Len(written))

\* C22: every response that process_request writes with a body carries a
\* Content-Length header equal to the number of body bytes written, after
\* compression (no response of process_request is chunked); also when the
\* handler supplied a partial head that already declares Content-Length.
C22_ContentLengthOfWritten ==
    (/\ out.op = "process_request"
     /\ out.request.method # "HEAD"
     /\ WrittenBody(out.done.written) # <<>>)
        => LET headers == parse_only_headers(WrittenHead(out.done.written))
           IN  /\ "content-length" \in DOMAIN headers
               /\ headers["content-length"]
                      = ToString(Len(WrittenBody(out.done.written)))

\* the header names the Vary header of a head lists
VaryNames(head) ==
    LET at == Find(head, "Vary: ", 1)
        ends == {j \in (at + 1)..Len(head) : head[j] \in {"\r\n", "\r\n\r\n"}}
    IN  IF at = 0 \/ ends = {} THEN {}
        ELSE {head[j] : j \in (at + 1)..(Min(ends) - 1)} \ {", "}

NamesAll(response, vary_headers) ==
    /\ get_head(response) # <<>>
    /\ \A i \in 1..Len(vary_headers) :
           vary_headers[i] \in VaryNames(get_head(response)[1])

Contains(bytes, part) ==
    \E i \in 1..(Len(bytes) - Len(part) + 1) :
        SubSeq(bytes, i, i + Len(part) - 1) = part

\* C24: a request with a method other than GET or HEAD for which no
\* function binding matches is answered with 405, and the content of the
\* static file at that path is never sent in response to it.
C24_MethodNotAllowed ==
    (/\ out.op = "process_request"
     /\ out.request.method \notin {"GET", "HEAD"}
     /\ ~ out.request.uri.forbidden
     /\ out.env.binding = <<>>)
        => /\ out.done.written[1] = StatusLine(405)
           /\ out.env.file # <<>>
                  => ~ Contains(WrittenBody(out.done.written),
                                SubSeq(out.env.file[1], Len(out.env.file[1]),
                                       Len(out.env.file[1])))

\* C25: every default error response (built by default_error or
\* default_error_response, for example the 404 for a file that cannot be
\* read) reaches the client with its status code, a body and
\* `cache-control: no-store`; no handler of the model chooses another client
\* cache policy for an error.
C25_ErrorsNotStored ==
    /\ (/\ out.op = "process_request"
        /\ out.done.error # 0
        /\ out.request.method # "HEAD")
           => LET headers ==
                      parse_only_headers(WrittenHead(out.done.written))
              IN  /\ out.done.written[1] = StatusLine(out.done.error)
                  /\ WrittenBody(out.done.written) # <<>>
                  /\ "cache-control" \in DOMAIN headers
                  /\ headers["cache-control"] = "no-store"
    /\ out.op = "default_error_response"
           => /\ out.fat.response.status = out.code
              /\ out.fat.response.body # <<>>
              /\ out.fat.client_cache_preference = "None"

(***************************************************************************)
(* Further properties of the cache (SpecCache).                            *)
(***************************************************************************)
\* C27: cache(key, value) with an admissible value removes an existing
\* entry only when inserting would otherwise take the map above max_items,
\* and then removes exactly one entry; re-inserting under a key that is
\* already mapped removes no other key.
C27_EvictsOnlyWhenNeeded ==
    [][\A key \in Keys, response \in ByteResponses :
         (/\ ret'.op = "cache"
          /\ ret'.ok
          /\ cache(key, with_data(response)))
         => LET removed == (DOMAIN map) \ (DOMAIN map')
            IN  /\ Cardinality(removed) <= 1
                /\ removed # {}
                       => Cardinality((DOMAIN map) \cup {key}) > max_items
                /\ key \in DOMAIN map => removed = {}]_vars

(***************************************************************************)
(* Properties of resolve_prepare (SpecExt).                                *)
(***************************************************************************)
\* the path resolve_prepare is asked about
PreparedPath ==
    IF run.overide_uri # <<>> THEN run.overide_uri[1] ELSE run.request

\* the positions of the prepare_fn handlers whose predicate was true
Holding == {i \in 1..Len(prepare_fn) : run.ifs[i]}

\* C29: for each request at most one prepare handler runs: the
\* prepare_single handler registered for the path of the override URI when
\* there is one, else for the path of the request URI; only if no such
\* handler is registered, the prepare_fn handler of the highest priority
\* among those whose predicate is true; and none when nothing matches.
C29_OnePrepareHandler ==
    run.phase = "prepare" =>
        /\ Len(run.response) <= 1
        /\ PreparedPath \in DOMAIN prepare_single =>
               run.response = <<prepare_single[PreparedPath]>>
        /\ (PreparedPath \notin DOMAIN prepare_single /\ Holding # {}) =>
               \E i \in Holding :
                   /\ run.response = <<prepare_fn[i].ext>>
                   /\ \A j \in Holding \ {i} :
                          prepare_fn[j].id.priority < prepare_fn[i].id.priority
        /\ (PreparedPath \notin DOMAIN prepare_single /\ Holding = {}) =>
               run.response = <<>>

\* the override path has no prepare_single handler although the request
\* path has one, two predicates are true, and the handler registered later
\* with the higher priority is the one that runs
C29_Witness ==
    /\ run.phase = "prepare"
    /\ run.overide_uri # <<>>
    /\ PreparedPath \notin DOMAIN prepare_single
    /\ run.request \in DOMAIN prepare_single
    /\ Cardinality(Holding) >= 2
    /\ run.response # <<>>
    /\ \E j \in Holding : prepare_fn[j].ext.n < run.response[1].n

(***************************************************************************)
(* Properties of resolve_present (SpecPresent).                            *)
(***************************************************************************)
PresentCall == out.op = "present" /\ out.driver = "resolve_present"

\* the positions of the names of the groups of an accepted directive line
GroupStarts(content) ==
    LET n == Find(content, "\n", 1)
    IN  IF PresentExtensions_new(content) = <<>> THEN {}
        ELSE {2} \cup {i + 1 : i \in {j \in 2..(n - 1) : content[j] = " &> "}}

\* the arguments that follow the name at position `at`: the words up to the
\* next group or the end of the line
ArgsAt(content, at) ==
    LET ends == {j \in (at + 1)..Len(content) : content[j] \in {" &> ", "\n"}}
        to == CHOOSE j \in ends : \A k \in ends : j <= k
    IN  Words(content, at + 1, to - 1)

InternalCallsOf(calls) == SelectSeq(calls, LAMBDA c : c.kind = "internal")

FileCallsOf(calls) == SelectSeq(calls, LAMBDA c : c.kind = "file")

\* C30: resolve_present invokes the present_internal handler of each
\* directive group once, in document order, with that group's arguments,
\* skipping names that have no registered handler, and then invokes the
\* present_file handler registered for the request path's file extension
\* exactly once, after all present_internal handlers.
C30_PresentOrder ==
    PresentCall =>
        LET internal == InternalCallsOf(out.calls)
            file == FileCallsOf(out.calls)
            handled == {at \in GroupStarts(out.body) :
                            out.body[at] \in out.present_internal}
        IN  /\ out.calls = internal \o file
            /\ {internal[i].at : i \in 1..Len(internal)} = handled
            /\ Len(internal) = Cardinality(handled)
            /\ \A i \in 1..Len(internal) :
                   /\ internal[i].name = out.body[internal[i].at]
                   /\ internal[i].args = ArgsAt(out.body, internal[i].at)
                   /\ i > 1 => internal[i - 1].at < internal[i].at
            /\ IF /\ PathExtension(out.path) # <<>>
                  /\ PathExtension(out.path)[1] \in out.present_file
               THEN /\ Len(file) = 1
                    /\ file[1].name = PathExtension(out.path)[1]
                    /\ file[1].args = <<>>
               ELSE file = <<>>

\* two groups whose names both have a handler, the second name differing
\* from the first, and a present_file handler called after them
C30_Witness ==
    /\ PresentCall
    /\ Len(out.calls) = 3
    /\ out.calls[1].kind = "internal"
    /\ out.calls[2].kind = "internal"
    /\ out.calls[1].name # out.calls[2].name
    /\ out.calls[1].at < out.calls[2].at
    /\ out.calls[3].kind = "file"

(***************************************************************************)
(* Properties of the thread pool (SpecPool).                               *)
(***************************************************************************)
\* the worker whose map holds the connection of a socket, and the token it
\* is held under; {} when no map holds it
HeldBy(socket) ==
    UNION {{<<w, token>> : token \in {t \in DOMAIN connections[w] :
                                         connections[w][t].socket = socket}} :
               w \in PoolWorkers}

\* the state of the connection of a socket: where it is held, and the token
\* it is registered with
ConnectionState(socket) ==
    [held |-> HeldBy(socket),
     registered |-> IF socket \in DOMAIN poll_registry
                    THEN <<poll_registry[socket]>> ELSE <<>>]

\* the worker an event of the socket is handed to; <<>> when it is dropped
RouteOf(socket) ==
    IF /\ socket \in DOMAIN poll_registry
       /\ poll_registry[socket] \in DOMAIN global_connections
    THEN <<global_connections[poll_registry[socket]]>>
    ELSE <<>>

\* the event brought an I/O error, a TLS error or the end of the stream
Failed(event) ==
    \/ event.readable /\ event.pull # "Ok"
    \/ event.writable /\ event.push = "Error"

\* C26: an I/O error, TLS error or end-of-stream while reading from or
\* writing to one connection closes only that connection: it is
\* deregistered and removed from its worker's connection map and from the
\* global token map, and no other connection's state or event routing
\* changes.
C26_ErrorClosesOnlyThatConnection ==
    [][(out'.op = "ready" /\ Failed(out'.event))
          => /\ out'.socket \notin DOMAIN poll_registry'
             /\ out'.token \notin DOMAIN connections'[out'.worker]
             /\ out'.token \notin DOMAIN global_connections'
             /\ \A socket \in (1..sockets) \ {out'.socket} :
                    /\ ConnectionState(socket)' = ConnectionState(socket)
                    /\ RouteOf(socket)' = RouteOf(socket)]_vars

(***************************************************************************)
(* Properties of the locks (SpecLocks).                                    *)
(***************************************************************************)
\* what a worker does next is a read of the filesystem or a write of a
\* response to the connection
InIO(w) == pc[w] \in {"open", "write_cached", "write"}

\* C28: no thread holds the file-cache lock or the response-cache lock
\* while it reads from the filesystem or writes a response to the
\* connection: each lock is held only for the map lookup, insert or remove
\* itself.
C28_NoLockAcrossIO ==
    \A w \in Workers : InIO(w) => fs_lock # w /\ response_lock # w

(***************************************************************************)
(* Further properties of CORS (SpecCors).                                  *)
(***************************************************************************)
AllowOrigin(response) ==
    IF "access-control-allow-origin" \in DOMAIN response.headers
    THEN <<response.headers["access-control-allow-origin"]>> ELSE <<>>

\* C31: of the requests that reach the Prime extensions, the response to
\* an allowed cross-origin request carries Access-Control-Allow-Origin with
\* the value of the request's Origin, and the response to a request that
\* the CORS Prime extension classified as denied carries no
\* Access-Control-Allow-Origin, whatever the other Prime extensions made
\* of the URI after the classification.
C31_AllowOriginFollowsClassification ==
    (/\ out.op = "handle"
     /\ ~ RejectsRaw(out.request.uri.path)
     /\ CrossOrigin(out.request))
        => AllowOrigin(out.response)
               = IF Denied(out.request) THEN <<>> ELSE out.request.origin

(***************************************************************************)
(* Further properties of the thread pool (SpecPool).                       *)
(***************************************************************************)
\* the connection that Connection::ready was called on is gone: it is
\* deregistered and no longer in its worker's map
ClosedAfterReady ==
    /\ out.socket \notin DOMAIN poll_registry
    /\ \A token \in DOMAIN connections[out.worker] :
           connections[out.worker][token].socket # out.socket

\* it is registered and held, not closing, by its worker
OpenAfterReady ==
    /\ out.socket \in DOMAIN poll_registry
    /\ out.token \in DOMAIN connections[out.worker]
    /\ connections[out.worker][out.token]
           = [socket |-> out.socket, closing |-> FALSE]

\* the response to the request of the event has been written and pushed
\* to the socket
Pushed ==
    /\ out.written # <<>>
    /\ out.event.writable
    /\ out.event.push = "Ok"

BadRequest == <<[by |-> "default_error", code |-> 400]>>

\* C32: once the response to a request that carried `Connection: close`
\* has been written, the connection is closed (marked closing, shut down
\* and deregistered) and not kept registered for further requests; a
\* connection whose unparsable request was answered 400, and which did not
\* carry that header, stays open.
C32_CloseHeaderCloses ==
    (out.op = "ready" /\ Pushed)
        => /\ CloseOf(out.event) => ClosedAfterReady
           /\ (out.written = BadRequest /\ ~ out.event.close)
                  => OpenAfterReady

\* C34: no two open connections share a token: the token of every
\* registered socket differs from that of every other registered socket
\* and from the listener tokens (those below RESERVED_TOKENS), so that an
\* event of a socket is routed to the worker that holds the connection of
\* that socket under that token.
C34_TokensUnique ==
    /\ \A s1 \in DOMAIN poll_registry, s2 \in DOMAIN poll_registry :
           s1 # s2 => poll_registry[s1] # poll_registry[s2]
    /\ \A socket \in DOMAIN poll_registry :
           /\ poll_registry[socket] >= RESERVED_TOKENS
           /\ RouteOf(socket) # <<>>
                  => HeldBy(socket)
                         = {<<RouteOf(socket)[1], poll_registry[socket]>>}

(***************************************************************************)
(* Properties of the reverse proxy (SpecProxy).                            *)
(***************************************************************************)
\* how the exchange with the upstream server fails, in the order of its
\* steps; "none" when no step fails
UpstreamFailure(env) ==
    IF env.establish # "Ok" THEN env.establish
    ELSE IF env.write # "Ok" THEN env.write
    ELSE IF env.head # "Ok" THEN env.head
    ELSE IF env.more /\ env.rest # "Ok" THEN env.rest
    ELSE "none"

\* the exchange with the upstream server is attempted
Attempted(env) == env.body_read = "Ok" /\ env.connection

\* C33: the reverse-proxy Prepare extension answers 502 for every upstream
\* I/O failure, a failure to establish the connection included, and for
\* every upstream parse failure, and 504 for every upstream timeout, be it
\* of the wait for the head or for the body.
C33_GatewayErrors ==
    (out.op = "proxy" /\ Attempted(out.env))
        => LET failure == UpstreamFailure(out.env)
               status == out.fat.response.status
           IN  /\ failure \in {"Io", "Parse"} => status = 502
               /\ failure = "Timeout" => status = 504

(***************************************************************************)
(* Properties of the guarded files (SpecGuarded).                          *)
(***************************************************************************)
\* the addresses the allow-ips directive of a file names; None when the
\* file has no such directive
AllowedIps(path) ==
    LET extensions == PresentExtensions_new(GuardedFiles[path])
        groups == IF extensions = <<>> THEN <<>> ELSE extensions[1].groups
        at == {i \in 1..Len(groups) : groups[i].name = "allow-ips"}
    IN  IF at = {} THEN <<>>
        ELSE <<UNION {{groups[i].args[k] : k \in 1..Len(groups[i].args)} :
                          i \in at}>>

\* C35: over any sequence of requests, the body of a file guarded by an
\* allow-ips directive is never sent to a client whose address the
\* directive does not name: that client is answered the 404 default error;
\* and the response of a guarded file is never stored in the response
\* cache, whatever directive groups follow in the same line.
C35_GuardedBodyStaysPrivate ==
    /\ \A path \in DOMAIN map : AllowedIps(path) = <<>>
    /\ (/\ out.op = "serve"
        /\ AllowedIps(out.path) # <<>>
        /\ out.address \notin AllowedIps(out.path)[1])
           => /\ out.response.status = 404
              /\ ~ InSeq(Secret, out.response.body)

(***************************************************************************)
(* Further properties of the served requests (SpecVariants, SpecServe).    *)
(***************************************************************************)
\* C36: after any sequence or interleaving of requests, no Vary entry of
\* the response cache holds two variants with the same values of the
\* matched headers.
C36_VariantsDistinct ==
    \A key \in DOMAIN map :
        map[key].type = "Vary"
            => \A i \in 1..Len(map[key].data), j \in 1..Len(map[key].data) :
                   i # j => map[key].data[i].headers
                                # map[key].data[j].headers

\* C37: a default error response, such as the 404 for a file that cannot
\* be read, is never put into the response cache, so that a later request
\* for the same URI is evaluated afresh: once the file exists it is not
\* answered 404.
C37_ErrorsNotCached ==
    out.op = "process_request"
        => /\ out.done.error # 0 => out.done.store = <<>>
           /\ (/\ out.request.method \in {"GET", "HEAD"}
               /\ ~ out.request.uri.forbidden
               /\ out.env.binding = <<>>
               /\ out.env.file # <<>>)
                  => out.done.written[1] # StatusLine(404)


(***************************************************************************)
(* Properties of CopyBuffer (SpecCopy).                                    *)
(***************************************************************************)
\* the bytes the reader has handed out so far, in the order it did
ReadSoFar == [k \in 1..(front.sent - Len(front.input)) |-> k]

\* a poll_write of the last call returned zero
WroteZero ==
    \E i \in 1..Len(out.trace) :
        out.trace[i] = Polled("poll_write", Ready(0))

\* the last poll of the last call was a flush that completed
FlushedLast ==
    /\ out.trace # <<>>
    /\ out.trace[Len(out.trace)] = Polled("poll_flush", Ready(0))

\* C38: across any sequence of poll_copy calls with pending results, errors
\* and partial writes, 0 <= pos <= cap <= buffer length; what the writer
\* accepted followed by what the buffer still holds is what the reader
\* produced, in its order; the end is recorded only when the reader reported
\* it; a write of zero bytes gives a WriteZero error; and Ok(true) is
\* returned only with the end seen, every byte read written, and the writer
\* flushed
C38_CopyKeepsOrder ==
    /\ 0 <= back_buf.pos
    /\ back_buf.pos <= back_buf.cap
    /\ back_buf.cap <= Len(back_buf.buf)
    /\ back.output \o SubSeq(back_buf.buf, back_buf.pos + 1, back_buf.cap)
           = ReadSoFar
    /\ back_buf.read_done => front.eof /\ front.input = <<>>
    /\ out.op = "poll_copy" =>
           /\ out.result.kind # "Spin"
           /\ WroteZero => out.result = CopyErr("WriteZero")
           /\ out.result = CopyOk(TRUE) =>
                  /\ back_buf.read_done
                  /\ back_buf.pos = back_buf.cap
                  /\ back.output = [k \in 1..front.sent |-> k]
                  /\ FlushedLast

\* a copy of MaxStream bytes finished: the end seen, all written and flushed
C38_Witness ==
    /\ out.op = "poll_copy"
    /\ out.result = CopyOk(TRUE)
    /\ back.output = [k \in 1..MaxStream |-> k]

(***************************************************************************)
(* Properties of the channel of the reverse proxy (FairChannel).           *)
(***************************************************************************)
Has(stream, k) == \E i \in 1..Len(stream) : stream[i] = k

\* C39: under fair scheduling every byte that is readable on the front
\* stream is eventually written to the back stream, also while the back
\* stream always has data for the front
C39_FrontReachesBack ==
    \A k \in 1..MaxStream : Has(front.input, k) ~> Has(back.output, k)

====
